---- MODULE Spec2Model ----
(***************************************************************************)
(* A model of the data-quality tool's identifier masker                    *)
(* (DataMaskingManager) and results archive (ResultsManager),              *)
(* src/org_1_2907.py.                                                      *)
(*                                                                         *)
(* Python dicts keep insertion order, and the masker's loops iterate in    *)
(* that order, so a dict is modelled as a sequence of [k, v] entries.      *)
(* A text is a sequence of words: every pattern the masker builds is       *)
(* \b + re.escape(name) + \b under re.IGNORECASE, so a substitution        *)
(* replaces exactly the words equal to the name up to letter case.         *)
(***************************************************************************)
EXTENDS Integers, Sequences, FiniteSets, TLC

\* ------------------------------------------------------------- bounds ----

\* Largest number of distinct table names masked in one session.
MaxTables == 2
\* Largest number of distinct column names masked for one table.
MaxCols == 2
\* Largest number of words of a text handed to mask_user_query / unmask_sql_query.
MaxTextLen == 1

\* Largest number of rows of a table of the checked database.
MaxDataRows == 1
\* Largest number of rows of a configuration file.
MaxConfigRows == 1
\* Largest number of fields the checks configuration holds.
MaxConfigFields == 2
MaxOffending == 150
MaxSampleRows == 2
MaxCalls == 3
MaxRepeatedRows == 6
MaxNumericRows == 3

\* ------------------------------------------------------- input alphabets --

\* An identifier holding a backslash followed by a digit: legal as a quoted
\* SQLite identifier, and an invalid group reference when used as the
\* replacement template of re.sub.
BadName == "a\\1"

TableNames == {"users", "orders"}

\* The table names of a schema: a table can carry a name of the form the
\* masker gives its tokens.
SchemaTableNames == TableNames \cup {"table_1"}
ColumnNames == {"id", "email", BadName}

\* Tokens handed to the unmask calls and found in texts; table_9 is never
\* assigned within the bounds.
TableTokens == {"table_1", "table_2", "table_9"}
ColumnTokens == {"col_1", "col_2"}

\* The words a text is made of: the names, the tokens, and an upper-case
\* spelling of a name and of a token (re.IGNORECASE).
Words == TableNames \cup ColumnNames \cup {"table_1", "col_1", "col_2"}
           \cup {"USERS", "COL_1"}

\* str.lower() on the words of the alphabet.
Lower(w) ==
  CASE w = "USERS" -> "users"
    [] w = "COL_1" -> "col_1"
    [] OTHER -> w

\* The texts of at most MaxTextLen words.
Texts == UNION {[1..n -> Words] : n \in 0..MaxTextLen}

VARIABLES
  table_mapping,           \* original_name -> masked_name
  column_mapping,          \* table_name -> {original_col -> masked_col}
  reverse_table_mapping,   \* masked_name -> original_name
  reverse_column_mapping,  \* table_name -> {masked_col -> original_col}
  mres,                    \* the last masker call: its name, arguments and outcome
  firstSeenTables,         \* history: the table names in the order of their first mask_table_name
  firstSeenCols            \* history: per table, the column names in the order of their first mask_column_name

maskerVars == <<table_mapping, column_mapping, reverse_table_mapping,
                reverse_column_mapping, mres, firstSeenTables, firstSeenCols>>

\* The Results database as one sqlite3 connection sees it (conn, with the
\* writes of an open transaction) and as it is on disk (disk, committed).
VARIABLES
  conn,            \* the database as results_connection reads it
  disk,            \* the committed database
  in_transaction,  \* results_connection has an open transaction
  now,             \* datetime.now(), to the day
  ares,            \* the last archive call and its outcome
  assigned,        \* history: per store operation and day, the versions of its successful calls, in order
  creates,         \* history: the number of store calls that created a table
  deleted,         \* history: some delete call has dropped a table
  failed           \* history: per store operation and day, a call has failed at one of its statements

archiveVars == <<conn, disk, in_transaction, now, ares, assigned, creates, deleted, failed>>

\* The validation engine (DataQualityChecker) and the database it checks.
VARIABLES
  checks_config,        \* table_name -> {field_name -> enabled checks}
  system_codes_config,  \* table_name -> {field_name -> valid codes}
  cres                  \* the last checker call, the data store it read, its outcome

checkerVars == <<checks_config, system_codes_config, cres>>

\* Two archive objects (two runs of the program) on one Results.db file.
VARIABLES
  file,     \* the committed database both connections read
  inst,     \* instance -> its store call: position, table name, open transaction
  writer,   \* the instance whose connection holds the write lock (0: none)
  calls     \* the number of store calls started

sharedVars == <<file, inst, writer, calls>>

vars == <<maskerVars, archiveVars, checkerVars, sharedVars>>

\* ------------------------------------------------------------- dicts -----

DictHas(d, key) == \E i \in 1..Len(d) : d[i].k = key

DictGet(d, key) == d[CHOOSE i \in 1..Len(d) : d[i].k = key].v

\* d[key] = value: a known key keeps its place, a new key goes last.
DictSet(d, key, value) ==
  IF DictHas(d, key)
    THEN [i \in 1..Len(d) |-> IF d[i].k = key THEN [k |-> key, v |-> value] ELSE d[i]]
    ELSE Append(d, [k |-> key, v |-> value])

\* d.get(key, default)
DictGetOr(d, key, default) == IF DictHas(d, key) THEN DictGet(d, key) ELSE default

DictKeys(d) == {d[i].k : i \in 1..Len(d)}


\* The masker object.
Self ==
  [table_mapping |-> table_mapping,
   column_mapping |-> column_mapping,
   reverse_table_mapping |-> reverse_table_mapping,
   reverse_column_mapping |-> reverse_column_mapping]

\* ------------------------------------------------- DataMaskingManager ----

\* f"table_{len(self.table_mapping) + 1}"
TableToken(tm) == "table_" \o ToString(Len(tm) + 1)

\* f"col_{len(self.column_mapping[table_name]) + 1}"
ColumnToken(cm) == "col_" \o ToString(Len(cm) + 1)

\* A plausible slip: the token index taken as the current size.
mask_table_name_off_by_one(self, original_name) ==
  IF ~DictHas(self.table_mapping, original_name)
    THEN LET masked_name == "table_" \o ToString(Len(self.table_mapping))
             s == [self EXCEPT
                     !.table_mapping = DictSet(@, original_name, masked_name),
                     !.reverse_table_mapping = DictSet(@, masked_name, original_name)]
         IN  [self |-> s, ret |-> DictGet(s.table_mapping, original_name)]
    ELSE [self |-> self, ret |-> DictGet(self.table_mapping, original_name)]

\* mask_table_name: the masker after the call, and the token returned.
mask_table_name(self, original_name) ==
  IF ~DictHas(self.table_mapping, original_name)
    THEN LET masked_name == TableToken(self.table_mapping)
             s == [self EXCEPT
                     !.table_mapping = DictSet(@, original_name, masked_name),
                     !.reverse_table_mapping = DictSet(@, masked_name, original_name)]
         IN  [self |-> s, ret |-> DictGet(s.table_mapping, original_name)]
    ELSE [self |-> self, ret |-> DictGet(self.table_mapping, original_name)]

\* A plausible slip: the per-table dicts are created anew on every call.
mask_column_name_reset(self, table_name, original_col) ==
  LET s1 == [self EXCEPT
               !.column_mapping = DictSet(@, table_name, <<>>),
               !.reverse_column_mapping = DictSet(@, table_name, <<>>)]
      masked_col == ColumnToken(DictGet(s1.column_mapping, table_name))
      s2 == [s1 EXCEPT
               !.column_mapping =
                  DictSet(@, table_name, DictSet(DictGet(@, table_name), original_col, masked_col)),
               !.reverse_column_mapping =
                  DictSet(@, table_name, DictSet(DictGet(@, table_name), masked_col, original_col))]
  IN  [self |-> s2, ret |-> DictGet(DictGet(s2.column_mapping, table_name), original_col)]

\* mask_column_name: the masker after the call, and the token returned.
mask_column_name(self, table_name, original_col) ==
  LET s1 == IF ~DictHas(self.column_mapping, table_name)
              THEN [self EXCEPT
                      !.column_mapping = DictSet(@, table_name, <<>>),
                      !.reverse_column_mapping = DictSet(@, table_name, <<>>)]
              ELSE self
      cm == DictGet(s1.column_mapping, table_name)
      s2 == IF ~DictHas(cm, original_col)
              THEN LET masked_col == ColumnToken(cm)
                   IN  [s1 EXCEPT
                          !.column_mapping =
                             DictSet(@, table_name, DictSet(cm, original_col, masked_col)),
                          !.reverse_column_mapping =
                             DictSet(@, table_name,
                                     DictSet(DictGet(@, table_name), masked_col, original_col))]
              ELSE s1
  IN  [self |-> s2, ret |-> DictGet(DictGet(s2.column_mapping, table_name), original_col)]

\* unmask_table_name: self.reverse_table_mapping.get(masked_name, masked_name)
unmask_table_name(self, masked_name) ==
  DictGetOr(self.reverse_table_mapping, masked_name, masked_name)

\* unmask_column_name
unmask_column_name(self, table_name, masked_col) ==
  LET original_table == unmask_table_name(self, table_name)
  IN  IF DictHas(self.reverse_column_mapping, original_table)
        THEN DictGetOr(DictGet(self.reverse_column_mapping, original_table), masked_col, masked_col)
        ELSE masked_col

\* ------------------------------------------------------- substitution ---

\* re.sub(r'\b' + re.escape(pattern) + r'\b', repl, text, flags=re.IGNORECASE):
\* every word equal to the pattern up to case becomes repl.
ReSub(pattern, repl, text) ==
  [i \in 1..Len(text) |-> IF Lower(text[i]) = Lower(pattern) THEN repl ELSE text[i]]

\* re.sub parses the replacement as a template before it looks for a match:
\* a backslash-digit with no such group raises re.error, match or no match.
TemplateError(repl) == repl = BadName

RECURSIVE Flatten(_)
Flatten(ss) == IF ss = <<>> THEN <<>> ELSE Head(ss) \o Flatten(Tail(ss))

\* The re.sub calls of a run in their order, applied to a text: the text
\* returned, or raised when a call raises (nothing is returned then).
RECURSIVE ApplySubs(_, _)
ApplySubs(subs, text) ==
  IF subs = <<>> THEN [raised |-> FALSE, out |-> text]
  ELSE IF TemplateError(Head(subs).repl) THEN [raised |-> TRUE, out |-> <<>>]
  ELSE ApplySubs(Tail(subs), ReSub(Head(subs).pattern, Head(subs).repl, text))

\* The items of one table's column dict as re.sub calls.
ColumnSubs(cm) ==
  [j \in 1..Len(cm) |-> [kind |-> "column", pattern |-> cm[j].k, repl |-> cm[j].v]]

\* mask_user_query's loop: for each table of table_mapping, the table's
\* name, then the columns of that table.
MaskSubstitutions(self) ==
  Flatten([i \in 1..Len(self.table_mapping) |->
     <<[kind |-> "table", pattern |-> self.table_mapping[i].k, repl |-> self.table_mapping[i].v]>>
     \o (IF DictHas(self.column_mapping, self.table_mapping[i].k)
           THEN ColumnSubs(DictGet(self.column_mapping, self.table_mapping[i].k))
           ELSE <<>>)])

mask_user_query(self, user_query) == ApplySubs(MaskSubstitutions(self), user_query)

\* unmask_sql_query's loops: the tokens of reverse_table_mapping, then for
\* each table of reverse_column_mapping the tokens of that table.
UnmaskSubstitutions(self) ==
  [i \in 1..Len(self.reverse_table_mapping) |->
     [kind |-> "table", pattern |-> self.reverse_table_mapping[i].k,
      repl |-> self.reverse_table_mapping[i].v]]
  \o Flatten([i \in 1..Len(self.reverse_column_mapping) |->
       ColumnSubs(self.reverse_column_mapping[i].v)])

\* The definition of unmask_sql_query in force: the class body defines the
\* method twice and the later definition, which has no try/except, replaces
\* the earlier one.
unmask_sql_query(self, masked_query) == ApplySubs(UnmaskSubstitutions(self), masked_query)

\* ------------------------------------------------------ masker actions ---

NoCall == [op |-> "none", table |-> "", name |-> "", text |-> <<>>,
           ret |-> "", raised |-> FALSE, out |-> <<>>, steps |-> <<>>]

MaskerInit ==
  /\ table_mapping = <<>>
  /\ column_mapping = <<>>
  /\ reverse_table_mapping = <<>>
  /\ reverse_column_mapping = <<>>
  /\ mres = NoCall
  /\ firstSeenTables = <<>>
  /\ firstSeenCols = [t \in SchemaTableNames |-> <<>>]

\* The caller is between two calls: calls are synchronous, one at a time.
MaskerIdle == mres.op = "none"

Range(seq) == {seq[i] : i \in 1..Len(seq)}

SetSelf(s) ==
  /\ table_mapping' = s.table_mapping
  /\ column_mapping' = s.column_mapping
  /\ reverse_table_mapping' = s.reverse_table_mapping
  /\ reverse_column_mapping' = s.reverse_column_mapping

MaskTableName(n) ==
  /\ MaskerIdle
  /\ DictHas(table_mapping, n) \/ Len(table_mapping) < MaxTables
  /\ LET r == mask_table_name(Self, n)
     IN  /\ SetSelf(r.self)
         /\ mres' = [NoCall EXCEPT !.op = "mask_table_name", !.name = n, !.ret = r.ret]
  /\ firstSeenTables' = IF n \in Range(firstSeenTables) THEN firstSeenTables
                        ELSE Append(firstSeenTables, n)
  /\ UNCHANGED firstSeenCols
  /\ UNCHANGED <<archiveVars, checkerVars, sharedVars>>

MaskColumnName(t, c) ==
  /\ MaskerIdle
  /\ DictHas(column_mapping, t) \/ Len(column_mapping) < MaxTables
  /\ c \in Range(firstSeenCols[t]) \/ Len(firstSeenCols[t]) < MaxCols
  /\ LET r == mask_column_name(Self, t, c)
     IN  /\ SetSelf(r.self)
         /\ mres' = [NoCall EXCEPT !.op = "mask_column_name", !.table = t, !.name = c,
                                   !.ret = r.ret]
  /\ firstSeenCols' = IF c \in Range(firstSeenCols[t]) THEN firstSeenCols
                      ELSE [firstSeenCols EXCEPT ![t] = Append(@, c)]
  /\ UNCHANGED firstSeenTables
  /\ UNCHANGED <<archiveVars, checkerVars, sharedVars>>

UnmaskTableName(tok) ==
  /\ MaskerIdle
  /\ mres' = [NoCall EXCEPT !.op = "unmask_table_name", !.name = tok,
                            !.ret = unmask_table_name(Self, tok)]
  /\ UNCHANGED <<table_mapping, column_mapping, reverse_table_mapping,
                 reverse_column_mapping, firstSeenTables, firstSeenCols>>
  /\ UNCHANGED <<archiveVars, checkerVars, sharedVars>>

UnmaskColumnName(t, tok) ==
  /\ MaskerIdle
  /\ mres' = [NoCall EXCEPT !.op = "unmask_column_name", !.table = t, !.name = tok,
                            !.ret = unmask_column_name(Self, t, tok)]
  /\ UNCHANGED <<table_mapping, column_mapping, reverse_table_mapping,
                 reverse_column_mapping, firstSeenTables, firstSeenCols>>
  /\ UNCHANGED <<archiveVars, checkerVars, sharedVars>>

MaskUserQuery(text) ==
  /\ MaskerIdle
  /\ LET r == mask_user_query(Self, text)
     IN  mres' = [NoCall EXCEPT !.op = "mask_user_query", !.text = text,
                                !.raised = r.raised, !.out = r.out,
                                !.steps = MaskSubstitutions(Self)]
  /\ UNCHANGED <<table_mapping, column_mapping, reverse_table_mapping,
                 reverse_column_mapping, firstSeenTables, firstSeenCols>>
  /\ UNCHANGED <<archiveVars, checkerVars, sharedVars>>

UnmaskSqlQuery(text) ==
  /\ MaskerIdle
  /\ LET r == unmask_sql_query(Self, text)
     IN  mres' = [NoCall EXCEPT !.op = "unmask_sql_query", !.text = text,
                                !.raised = r.raised, !.out = r.out,
                                !.steps = UnmaskSubstitutions(Self)]
  /\ UNCHANGED <<table_mapping, column_mapping, reverse_table_mapping,
                 reverse_column_mapping, firstSeenTables, firstSeenCols>>
  /\ UNCHANGED <<archiveVars, checkerVars, sharedVars>>

\* The caller takes the outcome of the call; the next call can start.
MaskerReturn ==
  /\ ~MaskerIdle
  /\ mres' = NoCall
  /\ UNCHANGED <<table_mapping, column_mapping, reverse_table_mapping,
                 reverse_column_mapping, firstSeenTables, firstSeenCols>>
  /\ UNCHANGED <<archiveVars, checkerVars, sharedVars>>

MaskerNext ==
  \/ \E n \in TableNames : MaskTableName(n)
  \/ \E t \in TableNames, c \in ColumnNames : MaskColumnName(t, c)
  \/ \E tok \in TableTokens : UnmaskTableName(tok)
  \/ \E t \in TableTokens \cup TableNames, tok \in ColumnTokens \cup {"id"} :
        UnmaskColumnName(t, tok)
  \/ \E text \in Texts : MaskUserQuery(text)
  \/ \E text \in Texts : UnmaskSqlQuery(text)
  \/ MaskerReturn

\* ============================================================ archive ====
\*
\* The sqlite3 module opens a transaction before an INSERT or DELETE and not
\* before CREATE TABLE or DROP TABLE: DDL run outside a transaction is
\* committed at once, DDL run inside one belongs to it.  Nothing in
\* ResultsManager rolls back.
\* Names are sequences of characters, so that LIKE is computed on them.

\* Largest number of store calls of one run that create a table.
MaxStores == 2

FailedBase == <<"f","a","i","l","e","d","c","h","e","c","k","s">>
PassedBase == <<"p","a","s","s","e","d","c","h","e","c","k","s">>
QueryBase == <<"q","u","e","r","y","_","r","e","s","u","l","t">>
CatalogName == <<"q","u","e","r","y","_","m","e","t","a","d","a","t","a">>

FailedSentinel == "DATA_QUALITY_FAILED_CHECKS_EXPORT"
PassedSentinel == "DATA_QUALITY_PASSED_CHECKS_EXPORT"

\* The days of a run: the last of a month and the first of the next.
Days == <<[year |-> 2026, month |-> 11, day |-> 30], [year |-> 2026, month |-> 12, day |-> 1]>>

\* The arguments of a store call.  records: the number of records; bad: the
\* index of the first record that cannot be bound as the row of an INSERT
\* (a wrong number of values, a value of an unsupported type), 0 when every
\* record can; column_names; meta_ok: the values of the catalog row
\* (description, query) can be bound and the query is not None.
StoreInput(records, bad, column_names, meta_ok) ==
  [records |-> records, bad |-> bad, column_names |-> column_names, meta_ok |-> meta_ok]

\* One input for each way through a store call: no records, no columns, a
\* column named twice (CREATE TABLE rejects it), a good call without and
\* with an id column, a last record that cannot be bound, a catalog row
\* that cannot be inserted.
StoreInputs ==
  {StoreInput(0, 0, <<"name">>, TRUE),
   StoreInput(2, 0, <<>>, TRUE),
   StoreInput(2, 0, <<"name", "name">>, TRUE),
   StoreInput(2, 0, <<"name">>, TRUE),
   StoreInput(2, 0, <<"ID", "name">>, TRUE),
   StoreInput(2, 2, <<"name">>, TRUE),
   StoreInput(2, 0, <<"name">>, FALSE)}

\* The query texts handed to store_query_results.
Queries == {"SELECT * FROM users"}

\* None, as the table name a store call returns.
None == <<>>

\* ------------------------------------------------------- formatting ------

DigitChar(d) == <<"0","1","2","3","4","5","6","7","8","9">>[d + 1]

\* str(n), n >= 0
RECURSIVE IntStr(_)
IntStr(n) == IF n < 10 THEN <<DigitChar(n)>> ELSE IntStr(n \div 10) \o <<DigitChar(n % 10)>>

\* %m, %d: two digits
Pad2(n) == <<DigitChar(n \div 10), DigitChar(n % 10)>>

\* strftime("%Y%m%d")
StrftimeCompact(t) == IntStr(t.year) \o Pad2(t.month) \o Pad2(t.day)

\* strftime("%Y-%m-%d")
StrftimeDashed(t) == IntStr(t.year) \o <<"-">> \o Pad2(t.month) \o <<"-">> \o Pad2(t.day)

\* str.lower() on the column names of the alphabet.
LowerCol(c) == IF c = "ID" THEN "id" ELSE c

\* 'id' in [col.lower() for col in column_names]
HasIdColumn(column_names) ==
  \E i \in 1..Len(column_names) : LowerCol(column_names[i]) = "id"

\* ------------------------------------------------------------- SQLite ----

\* x LIKE pat: % matches any run of characters, _ any one character.  (LIKE
\* ignores ASCII case; every name here is lower case.)
RECURSIVE LikeMatch(_, _)
LikeMatch(pat, str) ==
  IF pat = <<>> THEN str = <<>>
  ELSE IF Head(pat) = "%"
    THEN LikeMatch(Tail(pat), str) \/ (str # <<>> /\ LikeMatch(pat, Tail(str)))
  ELSE /\ str # <<>>
       /\ (Head(pat) = "_" \/ Head(pat) = Head(str))
       /\ LikeMatch(Tail(pat), Tail(str))

SetMax(S) == CHOOSE x \in S : \A y \in S : y <= x

EmptyDb == [tables |-> {}, catalog |-> {}, has_catalog |-> TRUE]

TableExists(d, name) == \E t \in d.tables : t.name = name

\* SELECT name FROM sqlite_master WHERE type='table' AND name=?
InSqliteMaster(d, name) ==
  TableExists(d, name) \/ (name = CatalogName /\ d.has_catalog)

\* CREATE TABLE rejects a column list that names a column twice; column
\* names are compared ignoring case.
DuplicateColumns(columns_def) ==
  \E i, j \in 1..Len(columns_def) :
     i < j /\ LowerCol(columns_def[i]) = LowerCol(columns_def[j])

\* DROP TABLE name
DropTable(d, name) ==
  IF name = CatalogName
    THEN [d EXCEPT !.catalog = {}, !.has_catalog = FALSE]
    ELSE [d EXCEPT !.tables = {t \in @ : t.name # name}]

\* The archive object: the connection and the file behind it.
Db == [conn |-> conn, disk |-> disk, in_transaction |-> in_transaction]

\* A DDL statement leaving the connection's view as c.
AfterDdl(db, c) ==
  [db EXCEPT !.conn = c, !.disk = IF db.in_transaction THEN @ ELSE c]

\* A successful INSERT or DELETE leaving the connection's view as c.
AfterDml(db, c) == [db EXCEPT !.conn = c, !.in_transaction = TRUE]

\* results_connection.commit()
Commit(db) == [db EXCEPT !.disk = db.conn, !.in_transaction = FALSE]

\* ------------------------------------------------------ ResultsManager ---

\* A plausible slip: the largest version itself is handed out.
_get_next_version_no_increment(catalog, base_table_name) ==
  LET versions == {r.version : r \in {x \in catalog :
                      LikeMatch(base_table_name \o <<"%">>, x.table_name)}}
      max_version == IF versions = {} THEN 0 ELSE SetMax(versions)
  IN  max_version

\* A plausible slip: the WHERE clause left out, the maximum is the catalog's.
_get_next_version_no_filter(catalog, base_table_name) ==
  LET versions == {r.version : r \in catalog}
      max_version == IF versions = {} THEN 0 ELSE SetMax(versions)
  IN  max_version + 1

\* SELECT MAX(version) FROM query_metadata WHERE table_name LIKE ? || '%'
_get_next_version(catalog, base_table_name) ==
  LET versions == {r.version : r \in {x \in catalog :
                      LikeMatch(base_table_name \o <<"%">>, x.table_name)}}
      max_version == IF versions = {} THEN 0 ELSE SetMax(versions)
  IN  max_version + 1

\* f"{base_table_name}_v{version}"
VersionedName(base_table_name, version) == base_table_name \o <<"_", "v">> \o IntStr(version)

_generate_table_name(catalog, t) ==
  LET base_table_name == QueryBase \o <<"_">> \o StrftimeCompact(t)
      version == _get_next_version(catalog, base_table_name)
  IN  [table_name |-> VersionedName(base_table_name, version), version |-> version]

_generate_failed_checks_table_name(catalog, t) ==
  LET base_table_name == FailedBase \o <<"_">> \o StrftimeCompact(t)
      version == _get_next_version(catalog, base_table_name)
  IN  [table_name |-> VersionedName(base_table_name, version), version |-> version]

_generate_passed_checks_table_name(catalog, t) ==
  LET base_table_name == PassedBase \o <<"_">> \o StrftimeCompact(t)
      version == _get_next_version(catalog, base_table_name)
  IN  [table_name |-> VersionedName(base_table_name, version), version |-> version]

\* The outcome of a store call: the archive after it, the table name
\* returned (None when nothing was stored), the version computed and the
\* statement the call ended at.
StoreOutcome(db, ret, version, stage) ==
  [db |-> db, ret |-> ret, version |-> version, stage |-> stage]

\* The statements of a store call after the table name is known: CREATE
\* TABLE, executemany(INSERT), INSERT INTO query_metadata, commit.  sqlite3
\* errors are caught and the call returns None; there is no rollback.
\* records: the number of records; bad: the index of the first record that
\* cannot be bound (0: none); meta_ok: the catalog row's values can be bound
\* and are not NULL.  Of a table the model keeps its name, whether its first
\* column is the surrogate result_id, and the number of its rows; of a
\* catalog row all but column_count, description and created_timestamp.
StoreStatements(db, gen, columns_def, records, bad, column_names, original_query, meta_ok, t) ==
  IF TableExists(db.conn, gen.table_name) \/ DuplicateColumns(columns_def)
    THEN StoreOutcome(db, None, gen.version, "create_failed")
    ELSE
      LET created == [db.conn EXCEPT !.tables =
                        @ \cup {[name |-> gen.table_name,
                                 result_id |-> columns_def[1] = "result_id",
                                 rows |-> 0]}]
          db1 == AfterDdl(db, created)
          inserted == IF bad = 0 THEN records ELSE bad - 1
          filled == [created EXCEPT !.tables =
                       {IF x.name = gen.table_name THEN [x EXCEPT !.rows = inserted] ELSE x
                          : x \in @}]
          db2 == AfterDml(db1, filled)
          row == [table_name |-> gen.table_name,
                  execution_date |-> StrftimeDashed(t),
                  version |-> gen.version,
                  original_query |-> original_query,
                  row_count |-> records]
          unique == ~\E r \in filled.catalog :
                        r.table_name = row.table_name /\ r.version = row.version
          db3 == AfterDml(db2, [filled EXCEPT !.catalog = @ \cup {row}])
      IN  IF bad # 0 THEN StoreOutcome(db2, None, gen.version, "insert_failed")
          ELSE IF ~meta_ok \/ ~unique THEN StoreOutcome(db2, None, gen.version, "catalog_failed")
          ELSE StoreOutcome(Commit(db3), gen.table_name, gen.version, "stored")

store_passed_checks_results(db, t, records, bad, column_names, meta_ok) ==
  IF records = 0 \/ column_names = <<>>
    THEN StoreOutcome(db, None, 0, "nothing")
  ELSE IF ~db.conn.has_catalog
    THEN StoreOutcome(db, None, 0, "version_failed")
  ELSE StoreStatements(db, _generate_passed_checks_table_name(db.conn.catalog, t),
                       <<"result_id">> \o column_names, records, bad, column_names,
                       PassedSentinel, meta_ok, t)

\* A plausible slip: the guard against an empty record list left out.
store_failed_checks_results_no_guard(db, t, records, bad, column_names, meta_ok) ==
  IF ~db.conn.has_catalog
    THEN StoreOutcome(db, None, 0, "version_failed")
  ELSE StoreStatements(db, _generate_failed_checks_table_name(db.conn.catalog, t),
                       <<"result_id">> \o column_names, records, bad, column_names,
                       FailedSentinel, meta_ok, t)

store_failed_checks_results(db, t, records, bad, column_names, meta_ok) ==
  IF records = 0 \/ column_names = <<>>
    THEN StoreOutcome(db, None, 0, "nothing")
  ELSE IF ~db.conn.has_catalog
    THEN StoreOutcome(db, None, 0, "version_failed")
  ELSE StoreStatements(db, _generate_failed_checks_table_name(db.conn.catalog, t),
                       <<"result_id">> \o column_names, records, bad, column_names,
                       FailedSentinel, meta_ok, t)

store_query_results(db, t, query, records, bad, column_names, meta_ok) ==
  IF records = 0 \/ column_names = <<>>
    THEN StoreOutcome(db, None, 0, "nothing")
  ELSE IF ~db.conn.has_catalog
    THEN StoreOutcome(db, None, 0, "version_failed")
  ELSE LET has_id_column == HasIdColumn(column_names)
           columns_def == (IF ~has_id_column THEN <<"result_id">> ELSE <<>>) \o column_names
       IN  StoreStatements(db, _generate_table_name(db.conn.catalog, t), columns_def,
                           records, bad, column_names, query, meta_ok, t)

\* delete_stored_result: the archive after the call and how the call ended.
delete_stored_result(db, table_name) ==
  IF ~InSqliteMaster(db.conn, table_name)
    THEN [db |-> db, outcome |-> "not_found"]
    ELSE
      LET db1 == AfterDdl(db, DropTable(db.conn, table_name))
      IN  IF ~db1.conn.has_catalog
            THEN [db |-> db1, outcome |-> "error"]
            ELSE [db |-> Commit(AfterDml(db1, [db1.conn EXCEPT !.catalog =
                                                 {r \in @ : r.table_name # table_name}])),
                  outcome |-> "deleted"]

\* close(), then ResultsManager(): the open transaction is lost, the new
\* connection reads the file, CREATE TABLE IF NOT EXISTS query_metadata.
_initialize_results_db(db) ==
  LET opened == [db.disk EXCEPT !.has_catalog = TRUE]
  IN  [conn |-> opened, disk |-> opened, in_transaction |-> FALSE]

\* ----------------------------------------------------- archive actions ---

StoreOps == {"store_passed_checks_results", "store_failed_checks_results",
             "store_query_results"}

\* The place of a day among the days of the run.
DayIndex(t) == CHOOSE i \in 1..Len(Days) : Days[i] = t

NoArchiveCall ==
  [op |-> "none", records |-> 0, id_supplied |-> FALSE, valid |-> FALSE, table_name |-> None,
   date |-> <<>>, ret |-> None, version |-> 0, stage |-> ""]


ArchiveInit ==
  /\ conn = EmptyDb
  /\ disk = EmptyDb
  /\ in_transaction = FALSE
  /\ now = Days[1]
  /\ ares = NoArchiveCall
  /\ assigned = [k \in StoreOps \X (1..Len(Days)) |-> <<>>]
  /\ creates = 0
  /\ deleted = FALSE
  /\ failed = [k \in StoreOps \X (1..Len(Days)) |-> FALSE]

\* The stages a store call fails at once its table name is known: CREATE
\* TABLE, the bulk INSERT, the INSERT of the catalog row.
FailedStages == {"create_failed", "insert_failed", "catalog_failed"}

\* The arguments of a store call are such that each of its statements can
\* run: records, every one of which can be bound, columns none of which is
\* named twice, a catalog row that can be inserted.
ValidStore(records, bad, column_names, meta_ok) ==
  /\ records > 0
  /\ bad = 0
  /\ column_names # <<>>
  /\ ~DuplicateColumns(column_names)
  /\ meta_ok

\* The caller is between two calls: calls are synchronous, one at a time.
ArchiveIdle == ares.op = "none"

SetDb(db) ==
  /\ conn' = db.conn
  /\ disk' = db.disk
  /\ in_transaction' = db.in_transaction

\* What a store call leaves behind for the caller, and in the history.
StoreDone(op, records, bad, column_names, meta_ok, r) ==
  /\ r.stage \in {"nothing", "version_failed", "create_failed"} \/ creates < MaxStores
  /\ SetDb(r.db)
  /\ ares' = [NoArchiveCall EXCEPT !.op = op, !.records = records,
                                   !.id_supplied = HasIdColumn(column_names),
                                   !.valid = ValidStore(records, bad, column_names, meta_ok),
                                   !.date = StrftimeCompact(now),
                                   !.ret = r.ret, !.version = r.version, !.stage = r.stage]
  /\ assigned' = IF r.ret # None
                   THEN [assigned EXCEPT ![<<op, DayIndex(now)>>] = Append(@, r.version)]
                   ELSE assigned
  /\ creates' = IF r.stage \in {"nothing", "version_failed", "create_failed"}
                  THEN creates ELSE creates + 1
  /\ UNCHANGED <<now, deleted>>
  /\ UNCHANGED <<maskerVars, checkerVars, sharedVars>>

StorePassed(records, bad, column_names, meta_ok) ==
  /\ ArchiveIdle
  /\ StoreDone("store_passed_checks_results", records, bad, column_names, meta_ok,
               store_passed_checks_results(Db, now, records, bad, column_names, meta_ok))
  /\ UNCHANGED failed

StoreFailed(records, bad, column_names, meta_ok) ==
  /\ ArchiveIdle
  /\ StoreDone("store_failed_checks_results", records, bad, column_names, meta_ok,
               store_failed_checks_results(Db, now, records, bad, column_names, meta_ok))
  /\ UNCHANGED failed

StoreQuery(query, records, bad, column_names, meta_ok) ==
  /\ ArchiveIdle
  /\ StoreDone("store_query_results", records, bad, column_names, meta_ok,
               store_query_results(Db, now, query, records, bad, column_names, meta_ok))
  /\ UNCHANGED failed

\* A store call of any of the three kinds, the history noting the kind
\* and day of a call that fails at one of its statements.
Store(op, query, records, bad, column_names, meta_ok) ==
  /\ ArchiveIdle
  /\ LET r == CASE op = "store_passed_checks_results" ->
                    store_passed_checks_results(Db, now, records, bad, column_names, meta_ok)
                [] op = "store_failed_checks_results" ->
                    store_failed_checks_results(Db, now, records, bad, column_names, meta_ok)
                [] OTHER ->
                    store_query_results(Db, now, query, records, bad, column_names, meta_ok)
     IN  /\ StoreDone(op, records, bad, column_names, meta_ok, r)
         /\ failed' = IF r.stage \in FailedStages
                         THEN [failed EXCEPT ![<<op, DayIndex(now)>>] = TRUE]
                         ELSE failed

\* A name no table has.
MissingName == <<"n","o","_","s","u","c","h">>

DeleteStoredResult(table_name) ==
  /\ ArchiveIdle
  /\ LET r == delete_stored_result(Db, table_name)
     IN  /\ SetDb(r.db)
         /\ ares' = [NoArchiveCall EXCEPT !.op = "delete_stored_result",
                                          !.table_name = table_name, !.stage = r.outcome]
         /\ deleted' = (deleted \/ r.outcome # "not_found")
  /\ UNCHANGED <<now, assigned, creates, failed>>
  /\ UNCHANGED <<maskerVars, checkerVars, sharedVars>>

\* The program ends (close) and is started again (ResultsManager()).
Reopen ==
  /\ ArchiveIdle
  /\ SetDb(_initialize_results_db(Db))
  /\ UNCHANGED <<now, ares, assigned, creates, deleted, failed>>
  /\ UNCHANGED <<maskerVars, checkerVars, sharedVars>>

\* Midnight passes.
NextDay ==
  /\ ArchiveIdle
  /\ now = Days[1]
  /\ now' = Days[2]
  /\ UNCHANGED <<conn, disk, in_transaction, ares, assigned, creates, deleted, failed>>
  /\ UNCHANGED <<maskerVars, checkerVars, sharedVars>>

\* The caller takes the outcome of the call; the next call can start.
ArchiveReturn ==
  /\ ~ArchiveIdle
  /\ ares' = NoArchiveCall
  /\ UNCHANGED <<conn, disk, in_transaction, now, assigned, creates, deleted, failed>>
  /\ UNCHANGED <<maskerVars, checkerVars, sharedVars>>

ArchiveNext ==
  \/ \E i \in StoreInputs : StorePassed(i.records, i.bad, i.column_names, i.meta_ok)
  \/ \E i \in StoreInputs : StoreFailed(i.records, i.bad, i.column_names, i.meta_ok)
  \/ \E q \in Queries, i \in StoreInputs :
        StoreQuery(q, i.records, i.bad, i.column_names, i.meta_ok)
  \/ \E name \in {t.name : t \in conn.tables} \cup {CatalogName, MissingName} :
        DeleteStoredResult(name)
  \/ Reopen
  \/ NextDay
  \/ ArchiveReturn

\* --------------------------------------------- two archive instances ---

Instances == {1, 2}

NoName == [table_name |-> None, version |-> 0]

\* A ResultsManager after _initialize_results_db, before its first call.
IdleInstance ==
  [pc |-> "idle", op |-> "none", call |-> 0, gen |-> NoName, pending |-> EmptyDb,
   in_transaction |-> FALSE, ret |-> None, stage |-> "", raced |-> FALSE]

\* What the connection of an instance reads: its open transaction, or the
\* committed file.
View(p) == IF inst[p].in_transaction THEN inst[p].pending ELSE file

\* The table name and version a store call of a kind computes.
GenerateName(op, catalog, t) ==
  CASE op = "store_query_results" -> _generate_table_name(catalog, t)
    [] op = "store_failed_checks_results" -> _generate_failed_checks_table_name(catalog, t)
    [] OTHER -> _generate_passed_checks_table_name(catalog, t)

\* A plausible slip: CREATE TABLE IF NOT EXISTS, which never fails on a name.
CreateFails_if_not_exists(view, table_name) == FALSE

\* CREATE TABLE name (...) raises sqlite3.OperationalError when a table of
\* that name exists.
CreateFails(view, table_name) == TableExists(view, table_name)

\* The call of an instance ends: sqlite3.Error is caught and None returned
\* (no rollback), or the table name is returned.
EndCall(p, ret, stage) ==
  [inst[p] EXCEPT !.pc = "idle", !.ret = ret, !.stage = stage]

SharedInit ==
  /\ file = EmptyDb
  /\ inst = [p \in Instances |-> IdleInstance]
  /\ writer = 0
  /\ calls = 0

\* A statement that writes can run: the connection holds the write lock or
\* nobody does.
CanWrite(p) == writer \in {0, p}

\* A store call starts with non-empty records and columns and computes its
\* table name from the catalog it reads.
GenerateTableName(p, op) ==
  /\ inst[p].pc = "idle"
  /\ calls < MaxCalls
  /\ LET gen == GenerateName(op, View(p).catalog, Days[1])
     IN  inst' = [inst EXCEPT ![p] =
                    [@ EXCEPT !.pc = "named", !.op = op, !.call = calls + 1, !.gen = gen,
                              !.ret = None, !.stage = "",
                              !.raced = \E q \in Instances \ {p} :
                                           inst[q].pc = "named" /\ inst[q].gen = gen]]
  /\ calls' = calls + 1
  /\ UNCHANGED <<file, writer>>
  /\ UNCHANGED <<maskerVars, archiveVars, checkerVars>>

\* cursor.execute(create_table_sql): outside a transaction the statement
\* commits by itself.
CreateTable(p) ==
  /\ inst[p].pc = "named"
  /\ CanWrite(p)
  /\ LET name == inst[p].gen.table_name
         created == [View(p) EXCEPT !.tables = @ \cup {[name |-> name, writers |-> {}]}]
     IN  IF CreateFails(View(p), name)
           THEN /\ inst' = [inst EXCEPT ![p] = EndCall(p, None, "create_failed")]
                /\ UNCHANGED file
           ELSE IF inst[p].in_transaction
             THEN /\ inst' = [inst EXCEPT ![p] = [@ EXCEPT !.pc = "created",
                                                            !.pending = created]]
                  /\ UNCHANGED file
             ELSE /\ inst' = [inst EXCEPT ![p] = [@ EXCEPT !.pc = "created"]]
                  /\ file' = created
  /\ UNCHANGED <<writer, calls>>
  /\ UNCHANGED <<maskerVars, archiveVars, checkerVars>>

\* A statement that writes finds the lock held by the other connection and
\* raises "database is locked" when its wait runs out.
DatabaseLocked(p) ==
  /\ inst[p].pc \in {"named", "created"}
  /\ ~CanWrite(p)
  /\ inst' = [inst EXCEPT ![p] = EndCall(p, None, "locked")]
  /\ UNCHANGED <<file, writer, calls>>
  /\ UNCHANGED <<maskerVars, archiveVars, checkerVars>>

\* cursor.executemany(insert_sql, records): the first INSERT opens the
\* transaction and takes the write lock.  bad: a record cannot be bound,
\* the rows before it stay in the open transaction.
InsertRecords(p, bad) ==
  /\ inst[p].pc = "created"
  /\ CanWrite(p)
  /\ LET name == inst[p].gen.table_name
         filled == [View(p) EXCEPT !.tables =
                      {IF x.name = name THEN [x EXCEPT !.writers = @ \cup {inst[p].call}]
                       ELSE x : x \in @}]
         next == [inst[p] EXCEPT !.pending = filled, !.in_transaction = TRUE]
     IN  inst' = [inst EXCEPT ![p] =
                    IF bad THEN [next EXCEPT !.pc = "idle", !.ret = None,
                                             !.stage = "insert_failed"]
                    ELSE [next EXCEPT !.pc = "inserted"]]
  /\ writer' = p
  /\ UNCHANGED <<file, calls>>
  /\ UNCHANGED <<maskerVars, archiveVars, checkerVars>>

\* INSERT INTO query_metadata: UNIQUE(table_name, version); meta_ok: the
\* values of the row can be bound.
InsertMetadata(p, meta_ok) ==
  /\ inst[p].pc = "inserted"
  /\ LET row == [table_name |-> inst[p].gen.table_name, version |-> inst[p].gen.version,
                 call |-> inst[p].call]
         unique == ~\E r \in inst[p].pending.catalog :
                       r.table_name = row.table_name /\ r.version = row.version
     IN  inst' = [inst EXCEPT ![p] =
                    IF meta_ok /\ unique
                      THEN [@ EXCEPT !.pc = "cataloged", !.pending.catalog = @ \cup {row}]
                      ELSE EndCall(p, None, "catalog_failed")]
  /\ UNCHANGED <<file, writer, calls>>
  /\ UNCHANGED <<maskerVars, archiveVars, checkerVars>>

\* self.results_connection.commit(), return table_name
CommitStore(p) ==
  /\ inst[p].pc = "cataloged"
  /\ file' = inst[p].pending
  /\ writer' = 0
  /\ inst' = [inst EXCEPT ![p] =
                [EndCall(p, inst[p].gen.table_name, "stored") EXCEPT !.in_transaction = FALSE]]
  /\ UNCHANGED calls
  /\ UNCHANGED <<maskerVars, archiveVars, checkerVars>>

SharedNext ==
  \/ \E p \in Instances, op \in StoreOps : GenerateTableName(p, op)
  \/ \E p \in Instances : CreateTable(p)
  \/ \E p \in Instances : DatabaseLocked(p)
  \/ \E p \in Instances, bad \in BOOLEAN : InsertRecords(p, bad)
  \/ \E p \in Instances, meta_ok \in BOOLEAN : InsertMetadata(p, meta_ok)
  \/ \E p \in Instances : CommitStore(p)

\* ------------------------------------------------------- field values ---

\* SQL NULL in a column.
Null == "<NULL>"

\* The values a column holds in the model.
FieldValues ==
  {Null, "", "7", "-90", "100", "0", "abc", "a@b.co", "AB123", "x!",
   "+1 415 555 0100", "2024-01-31", "caf\\u00e9"}

\* The i-th of a family of distinct values no value check accepts: not
\* an e-mail address, a phone number, a date, a number or a system code,
\* and with a special character.
Offender(i) == "X!" \o ToString(i)

Offenders == {Offender(i) : i \in 1..(MaxOffending + 1)}

\* float(value) succeeds
_is_numeric(value) == value \in {"7", "-90", "100", "0"}

\* float(val_str)
Float(value) ==
  CASE value = "7" -> 7
    [] value = "-90" -> 0 - 90
    [] value = "100" -> 100
    [] value = "0" -> 0
    [] OTHER -> 0

\* ^[a-zA-Z0-9._%+-]+@[a-zA-Z0-9.-]+\.[a-zA-Z]{2,}$
_is_valid_email(email) ==
  email \in {"a@b.co", "john.doe@company.com", "bob.wilson@company.com",
             "alice.brown@company.com", "mike.davis@company.com"}

\* the digits and + kept, 10 to 15 of them, ^\+?[1-9]\d{9,14}$
_is_valid_phone(phone) == phone = "+1 415 555 0100"

\* one of the strptime formats parses the value
_is_valid_date(date_str) == date_str = "2024-01-31"

\* not ^[a-zA-Z0-9\s.,@_-]+$
_has_special_characters(text) ==
  text \in {"x!", "+1 415 555 0100", "caf\\u00e9"} \/ text \in Offenders

\* text.encode('ascii') fails
_has_non_ascii_characters(text) == text = "caf\\u00e9"

\* one of the four code patterns matches the upper-cased value
_looks_like_system_code(code) == code = "AB123"

\* str.upper on the values of the model
Upper(value) ==
  CASE value = "abc" -> "ABC"
    [] value = "a@b.co" -> "A@B.CO"
    [] value = "x!" -> "X!"
    [] value = "caf\\u00e9" -> "CAF\\u00c9"
    [] OTHER -> value

\* ---------------------------------------------------------- data store ---

\* A column name that is an SQL keyword: every statement that names it
\* unquoted raises sqlite3.OperationalError.
KeywordField == "order"

\* The thirteen checks of a configuration row, in the order in which
\* _run_field_checks evaluates them.
CheckOrder ==
  <<"null_check", "blank_check", "email_check", "phone_number_check",
    "date_check", "numeric_check", "duplicate_check",
    "special_characters_check", "system_codes_check", "language_check",
    "max_count_check", "max_value_check", "min_value_check">>

CheckNames == {CheckOrder[i] : i \in 1..Len(CheckOrder)}

\* SELECT name FROM sqlite_master WHERE type='table' AND name=?
_table_exists(db, table_name) == table_name \in DOMAIN db

\* PRAGMA table_info(table): column_name in the columns of the table
_column_exists(db, table_name, column_name) ==
  table_name \in DOMAIN db /\ column_name \in DOMAIN db[table_name].columns

\* SELECT field FROM table: the column, row by row.
ColumnOf(db, table_name, field_name) == db[table_name].columns[field_name]

\* ... WHERE field IS NOT NULL AND field != ''
NonNull(col) == SelectSeq(col, LAMBDA v : v # Null /\ v # "")

\* SELECT DISTINCT: the values in the order of their first occurrence.
Distinct(col) ==
  LET firsts == SelectSeq([i \in 1..Len(col) |-> i],
                          LAMBDA i : \A j \in 1..(i - 1) : col[j] # col[i])
  IN  [k \in 1..Len(firsts) |-> col[firsts[k]]]

\* COUNT(*) of the rows holding the value
Occurrences(col, v) == Len(SelectSeq(col, LAMBDA w : w = v))

RECURSIVE SumSeq(_)
SumSeq(seq) == IF seq = <<>> THEN 0 ELSE Head(seq) + SumSeq(Tail(seq))

SetMin(S) == CHOOSE x \in S : \A y \in S : x <= y

\* -------------------------------------------------- DataQualityChecker ---

\* One entry of the list _run_field_checks returns (the message is left out).
Result(table_name, field_name, check_type, status) ==
  [table |-> table_name, field |-> field_name, check_type |-> check_type,
   status |-> status]

\* The checker object; db is what its connection reads during the call.
Checker(db) ==
  [db_connection |-> db, checks_config |-> checks_config,
   system_codes_config |-> system_codes_config]

\* self.system_codes_config.get(table_name, {}).get(field_name, [])
_get_valid_system_codes(self, table_name, field_name) ==
  DictGetOr(DictGetOr(self.system_codes_config, table_name, <<>>), field_name, <<>>)

\* The pattern of the email, phone, date, numeric, special-characters and
\* language checks: nothing when no value is left after dropping NULL and
\* '', FAIL when some value is bad, PASS otherwise.
\* invalid: the values of the column the check collects as bad.
ValuesCheck(t, f, check_type, col, invalid) ==
  LET values == NonNull(col)
  IN  IF Len(values) = 0 THEN <<>>
      ELSE IF invalid # <<>>
        THEN <<Result(t, f, check_type, "FAIL")>>
        ELSE <<Result(t, f, check_type, "PASS")>>

null_check(t, f, col) ==
  IF \E i \in 1..Len(col) : col[i] = Null
    THEN <<Result(t, f, "null_check", "FAIL")>>
    ELSE <<Result(t, f, "null_check", "PASS")>>

blank_check(t, f, col) ==
  IF \E i \in 1..Len(col) : col[i] = ""
    THEN <<Result(t, f, "blank_check", "FAIL")>>
    ELSE <<Result(t, f, "blank_check", "PASS")>>

\* A plausible slip: the occurrences summed, not the occurrences beyond
\* the first.
duplicate_message_all_rows(col) ==
  LET groups == Distinct(SelectSeq(col, LAMBDA v : v # Null))
      duplicates == SelectSeq(groups, LAMBDA v : Occurrences(col, v) > 1)
  IN  [total_duplicate_count |->
         SumSeq([i \in 1..Len(duplicates) |-> Occurrences(col, duplicates[i])]),
       distinct |-> Len(duplicates)]

\* The numbers in the message of a failed duplicate_check:
\* sum(count - 1 for _, count in duplicates) and len(duplicates).
duplicate_message(col) ==
  LET groups == Distinct(SelectSeq(col, LAMBDA v : v # Null))
      duplicates == SelectSeq(groups, LAMBDA v : Occurrences(col, v) > 1)
  IN  [total_duplicate_count |->
         SumSeq([i \in 1..Len(duplicates) |-> Occurrences(col, duplicates[i]) - 1]),
       distinct |-> Len(duplicates)]

\* GROUP BY field HAVING COUNT(*) > 1 over the values that are not NULL
duplicate_check(t, f, col) ==
  IF \E i, j \in 1..Len(col) : i < j /\ col[i] # Null /\ col[i] = col[j]
    THEN <<Result(t, f, "duplicate_check", "FAIL")>>
    ELSE <<Result(t, f, "duplicate_check", "PASS")>>

system_codes_check(self, t, f, col) ==
  LET values == NonNull(col)
      valid_codes_list == _get_valid_system_codes(self, t, f)
      valid_codes_upper == {Upper(valid_codes_list[i]) : i \in 1..Len(valid_codes_list)}
      Invalid(v) == IF valid_codes_list # <<>>
                      THEN Upper(v) \notin valid_codes_upper
                      ELSE ~_looks_like_system_code(Upper(v))
  IN  IF Len(values) = 0 THEN <<Result(t, f, "system_codes_check", "WARNING")>>
      ELSE IF \E i \in 1..Len(values) : Invalid(values[i])
        THEN <<Result(t, f, "system_codes_check", "FAIL")>>
        ELSE <<Result(t, f, "system_codes_check", "PASS")>>

\* The numeric values of the column, as numbers.
NumericValues(col) ==
  LET kept == SelectSeq(NonNull(col), _is_numeric)
  IN  [i \in 1..Len(kept) |-> Float(kept[i])]

TextValues(col) == SelectSeq(NonNull(col), LAMBDA v : ~_is_numeric(v))

\* The results both value analyses end with: the text values, the mix.
TextAndMixed(t, f, check_type, numeric_values, text_values) ==
  (IF text_values # <<>> THEN <<Result(t, f, check_type, "INFO")>> ELSE <<>>)
  \o (IF numeric_values # <<>> /\ text_values # <<>>
        THEN <<Result(t, f, check_type, "INFO")>>
      ELSE IF numeric_values = <<>> /\ text_values = <<>>
        THEN <<Result(t, f, check_type, "WARNING")>>
      ELSE <<>>)

\* A plausible slip: the guard avg_numeric > 0 of the min_value_check
\* copied to the max_value_check.
max_value_check_positive_mean(t, f, col) ==
  LET numeric_values == NumericValues(col)
      text_values == TextValues(col)
      n == Len(numeric_values)
      max_numeric == SetMax({numeric_values[i] : i \in 1..n})
  IN  IF Len(NonNull(col)) = 0 THEN <<>>
      ELSE (IF n = 0 THEN <<>>
            ELSE IF max_numeric * n > SumSeq(numeric_values) * 10 /\ SumSeq(numeric_values) > 0
              THEN <<Result(t, f, "max_value_check", "WARNING")>>
              ELSE <<Result(t, f, "max_value_check", "PASS")>>)
           \o TextAndMixed(t, f, "max_value_check", numeric_values, text_values)

\* max_numeric > avg_numeric * 10, with avg = sum / len
max_value_check(t, f, col) ==
  LET numeric_values == NumericValues(col)
      text_values == TextValues(col)
      n == Len(numeric_values)
      max_numeric == SetMax({numeric_values[i] : i \in 1..n})
  IN  IF Len(NonNull(col)) = 0 THEN <<>>
      ELSE (IF n = 0 THEN <<>>
            ELSE IF max_numeric * n > SumSeq(numeric_values) * 10
              THEN <<Result(t, f, "max_value_check", "WARNING")>>
              ELSE <<Result(t, f, "max_value_check", "PASS")>>)
           \o TextAndMixed(t, f, "max_value_check", numeric_values, text_values)

\* min_numeric < 0, or min_numeric < avg_numeric * 0.1 and avg_numeric > 0
min_value_check(t, f, col) ==
  LET numeric_values == NumericValues(col)
      text_values == TextValues(col)
      n == Len(numeric_values)
      min_numeric == SetMin({numeric_values[i] : i \in 1..n})
      sum == SumSeq(numeric_values)
  IN  IF Len(NonNull(col)) = 0 THEN <<>>
      ELSE (IF n = 0 THEN <<>>
            ELSE IF min_numeric < 0 \/ (min_numeric * n * 10 < sum /\ sum > 0)
              THEN <<Result(t, f, "min_value_check", "WARNING")>>
              ELSE <<Result(t, f, "min_value_check", "PASS")>>)
           \o TextAndMixed(t, f, "min_value_check", numeric_values, text_values)

\* The most frequent value, when a value is left after dropping NULL and ''.
max_count_check(t, f, col) ==
  IF Len(NonNull(col)) = 0 THEN <<>>
  ELSE <<Result(t, f, "max_count_check", "INFO")>>

\* What one enabled check appends.  The max_value_check and min_value_check
\* blocks stand inside the max_count_check block.
CheckBlock(self, t, f, checks, check, col) ==
  CASE check = "null_check" -> null_check(t, f, col)
    [] check = "blank_check" -> blank_check(t, f, col)
    [] check = "email_check" ->
         ValuesCheck(t, f, check, col, SelectSeq(NonNull(col), LAMBDA v : ~_is_valid_email(v)))
    [] check = "phone_number_check" ->
         ValuesCheck(t, f, check, col, SelectSeq(NonNull(col), LAMBDA v : ~_is_valid_phone(v)))
    [] check = "date_check" ->
         ValuesCheck(t, f, check, col, SelectSeq(NonNull(col), LAMBDA v : ~_is_valid_date(v)))
    [] check = "numeric_check" ->
         ValuesCheck(t, f, check, col, SelectSeq(NonNull(col), LAMBDA v : ~_is_numeric(v)))
    [] check = "duplicate_check" -> duplicate_check(t, f, col)
    [] check = "special_characters_check" ->
         ValuesCheck(t, f, check, col, SelectSeq(NonNull(col), _has_special_characters))
    [] check = "system_codes_check" -> system_codes_check(self, t, f, col)
    [] check = "language_check" ->
         ValuesCheck(t, f, check, col, SelectSeq(NonNull(col), _has_non_ascii_characters))
    [] check = "max_count_check" ->
         max_count_check(t, f, col)
         \o (IF "max_value_check" \in checks THEN max_value_check(t, f, col) ELSE <<>>)
         \o (IF "min_value_check" \in checks THEN min_value_check(t, f, col) ELSE <<>>)
    [] OTHER -> <<>>

\* The checks whose blocks stand at the top level of the try body.
TopLevelChecks == SubSeq(CheckOrder, 1, 11)

\* A plausible slip: the max_value_check and min_value_check blocks moved
\* out to the level of the other blocks.
FieldBlocks_unnested(self, t, f, checks, col) ==
  IF f = KeywordField
    THEN IF checks # {}
           THEN <<Result(t, f, "database_error", "ERROR")>>
           ELSE <<>>
    ELSE Flatten([i \in 1..Len(CheckOrder) |->
           IF CheckOrder[i] \notin checks THEN <<>>
           ELSE IF CheckOrder[i] = "max_count_check" THEN max_count_check(t, f, col)
           ELSE IF CheckOrder[i] = "max_value_check" THEN max_value_check(t, f, col)
           ELSE IF CheckOrder[i] = "min_value_check" THEN min_value_check(t, f, col)
           ELSE CheckBlock(self, t, f, checks, CheckOrder[i], col)])

\* The try body after the row count: the enabled blocks in their order; the
\* first statement that names a keyword column raises sqlite3.Error, and
\* the except clause appends the ERROR result.
FieldBlocks(self, t, f, checks, col) ==
  IF f = KeywordField
    THEN IF \E i \in 1..Len(TopLevelChecks) : TopLevelChecks[i] \in checks
           THEN <<Result(t, f, "database_error", "ERROR")>>
           ELSE <<>>
    ELSE Flatten([i \in 1..Len(TopLevelChecks) |->
           IF TopLevelChecks[i] \in checks
             THEN CheckBlock(self, t, f, checks, TopLevelChecks[i], col)
             ELSE <<>>])

\* A plausible slip: the missing column is reported but the checks run on.
_run_field_checks_no_return(self, table_name, field_name, checks) ==
  IF ~_column_exists(self.db_connection, table_name, field_name)
    THEN <<Result(table_name, field_name, "column_existence", "FAIL")>>
         \o (IF checks # {}
               THEN <<Result(table_name, field_name, "database_error", "ERROR")>>
               ELSE <<>>)
    ELSE LET col == ColumnOf(self.db_connection, table_name, field_name)
         IN  IF Len(col) = 0
               THEN <<Result(table_name, field_name, "data_existence", "WARNING")>>
               ELSE FieldBlocks(self, table_name, field_name, checks, col)

\* A plausible slip: the empty table is reported but the checks run on.
_run_field_checks_no_data_guard(self, table_name, field_name, checks) ==
  IF ~_column_exists(self.db_connection, table_name, field_name)
    THEN <<Result(table_name, field_name, "column_existence", "FAIL")>>
    ELSE LET col == ColumnOf(self.db_connection, table_name, field_name)
         IN  (IF Len(col) = 0
                THEN <<Result(table_name, field_name, "data_existence", "WARNING")>>
                ELSE <<>>)
             \o FieldBlocks(self, table_name, field_name, checks, col)

\* A plausible slip: the except clause reports the error twice.
_run_field_checks_error_twice(self, table_name, field_name, checks) ==
  IF ~_column_exists(self.db_connection, table_name, field_name)
    THEN <<Result(table_name, field_name, "column_existence", "FAIL")>>
    ELSE LET col == ColumnOf(self.db_connection, table_name, field_name)
             blocks == FieldBlocks(self, table_name, field_name, checks, col)
         IN  IF Len(col) = 0
               THEN <<Result(table_name, field_name, "data_existence", "WARNING")>>
               ELSE blocks \o SelectSeq(blocks, LAMBDA r : r.status = "ERROR")

_run_field_checks(self, table_name, field_name, checks) ==
  IF ~_column_exists(self.db_connection, table_name, field_name)
    THEN <<Result(table_name, field_name, "column_existence", "FAIL")>>
    ELSE LET col == ColumnOf(self.db_connection, table_name, field_name)
         IN  IF Len(col) = 0
               THEN <<Result(table_name, field_name, "data_existence", "WARNING")>>
               ELSE FieldBlocks(self, table_name, field_name, checks, col)

\* The results of the fields of one table, in the order of the fields.
TableResults(self, table_name, fields) ==
  Flatten([j \in 1..Len(fields) |->
             _run_field_checks(self, table_name, fields[j].k, fields[j].v)])

RECURSIVE RunTables(_, _, _)
\* run_all_checks' loop from the i-th configured table on.
RunTables(self, i, results) ==
  IF i > Len(self.checks_config) THEN results
  ELSE LET table_name == self.checks_config[i].k
           table_results == TableResults(self, table_name, self.checks_config[i].v)
       IN  IF ~_table_exists(self.db_connection, table_name) \/ table_results = <<>>
             THEN RunTables(self, i + 1, results)
             ELSE RunTables(self, i + 1, DictSet(results, table_name, table_results))

\* A plausible slip: break instead of continue at a table that is missing.
run_all_checks_break(self) ==
  LET missing == {i \in 1..Len(self.checks_config) :
                     ~_table_exists(self.db_connection, self.checks_config[i].k)}
      cut == IF missing = {} THEN self
             ELSE [self EXCEPT !.checks_config = SubSeq(@, 1, SetMin(missing) - 1)]
  IN  RunTables(cut, 1, <<>>)

run_all_checks(self) == RunTables(self, 1, <<>>)

\* ------------------------------------------------- configuration loads ---

\* A CSV file: whether it can be opened, the required column its header
\* lacks ("" when it has them all), and its rows.
Source(exists, missing, rows) == [exists |-> exists, missing |-> missing, rows |-> rows]

NoSource == Source(FALSE, "", <<>>)

\* row[column] raises KeyError
KeyError(source, column) == source.missing = column

RECURSIVE LoadChecksRows(_, _, _)
\* load_checks_config's loop from the i-th row on: the configuration it
\* leaves and whether it ran to the end.
LoadChecksRows(config, source, i) ==
  IF i > Len(source.rows) THEN [config |-> config, ret |-> TRUE]
  ELSE IF KeyError(source, "table_name") \/ KeyError(source, "field_name")
    THEN [config |-> config, ret |-> FALSE]
  ELSE LET row == source.rows[i]
           entered == IF DictHas(config, row.table_name) THEN config
                      ELSE DictSet(config, row.table_name, <<>>)
       IN  IF source.missing # ""
             THEN [config |-> entered, ret |-> FALSE]
             ELSE LoadChecksRows(
                    DictSet(entered, row.table_name,
                            DictSet(DictGet(entered, row.table_name),
                                    row.field_name, row.checks)),
                    source, i + 1)

load_checks_config(self, source) ==
  IF ~source.exists THEN [self |-> self, ret |-> FALSE]
  ELSE LET r == LoadChecksRows(self.checks_config, source, 1)
       IN  [self |-> [self EXCEPT !.checks_config = r.config], ret |-> r.ret]

RECURSIVE LoadCodesRows(_, _, _)
LoadCodesRows(config, source, i) ==
  IF i > Len(source.rows) THEN [config |-> config, ret |-> TRUE]
  ELSE IF source.missing # "" THEN [config |-> config, ret |-> FALSE]
  ELSE LET row == source.rows[i]
           entered == IF DictHas(config, row.table_name) THEN config
                      ELSE DictSet(config, row.table_name, <<>>)
       IN  LoadCodesRows(
             DictSet(entered, row.table_name,
                     DictSet(DictGet(entered, row.table_name),
                             row.field_name, row.valid_codes)),
             source, i + 1)

\* self.system_codes_config = {} comes first, inside the try.
load_system_codes_config(self, source) ==
  IF ~source.exists
    THEN [self |-> [self EXCEPT !.system_codes_config = <<>>], ret |-> FALSE]
  ELSE LET r == LoadCodesRows(<<>>, source, 1)
       IN  [self |-> [self EXCEPT !.system_codes_config = r.config], ret |-> r.ret]

\* ------------------------------------------------------------ summaries ---

\* All results of a run, table by table.
AllResults(results) == Flatten([i \in 1..Len(results) |-> results[i].v])

CountStatus(all, statuses) ==
  Len(SelectSeq(all, LAMBDA r : r.status \in statuses))

\* print_results: the SUMMARY line.  Every status other than PASS, FAIL
\* and WARNING is counted as failed.
print_results(results) ==
  LET all == AllResults(results)
  IN  [total_checks |-> Len(all),
       passed_checks |-> CountStatus(all, {"PASS"}),
       failed_checks |-> CountStatus(all, {"FAIL"})
                           + Len(SelectSeq(all, LAMBDA r : r.status \notin {"PASS", "FAIL", "WARNING"})),
       warnings |-> CountStatus(all, {"WARNING"})]

\* The upload endpoint's summary_stats (src/api_app.py).
summary_stats(results) ==
  LET all == AllResults(results)
  IN  [total_checks |-> Len(all),
       passed_checks |-> CountStatus(all, {"PASS"}),
       failed_checks |-> CountStatus(all, {"FAIL"}),
       warnings |-> CountStatus(all, {"WARNING"})]

NoSummary == [total_checks |-> 0, passed_checks |-> 0, failed_checks |-> 0, warnings |-> 0]

\* ------------------------------------------------------ checker inputs ---

\* The values the columns of the checked database are filled with.
SampleValues == {Null, "", "a@b.co"}

ColumnSamples == UNION {[1..n -> SampleValues] : n \in 0..MaxDataRows}

AmountSamples == {<<"7", "100">>, <<"-90", "100">>}

\* A database with the tables users(email, "order") and orders(amount).
Database(emails, amounts) ==
  [t \in {"users", "orders"} |->
     IF t = "users"
       THEN [columns |-> [c \in {"email", KeywordField} |->
                            IF c = "email" THEN emails
                            ELSE [i \in 1..Len(emails) |-> "abc"]]]
       ELSE [columns |-> [c \in {"amount"} |-> amounts]]]

Databases == {Database(e, a) : e \in ColumnSamples, a \in AmountSamples}

\* The (table, field) pairs configuration rows name: existing columns, a
\* keyword column, a missing column, a missing table.
ConfigPairs ==
  {<<"users", "email">>, <<"users", KeywordField>>, <<"users", "nope">>,
   <<"orders", "amount">>, <<"ghost", "x">>}

\* The sets of enabled checks configuration rows carry.
CheckSets ==
  {{"null_check", "email_check"}, {"max_value_check"}, CheckNames}

ConfigRow(pair, checks) ==
  [table_name |-> pair[1], field_name |-> pair[2], checks |-> checks]

\* The rows of a file name different fields.
PairLists ==
  {pairs \in UNION {[1..k -> ConfigPairs] : k \in 0..MaxConfigRows} :
     \A i, j \in 1..Len(pairs) : i # j => pairs[i] # pairs[j]}

\* The checks configuration files: one set of checks for all rows of a file.
ChecksSources ==
  {NoSource}
  \cup {Source(TRUE, "", [i \in 1..Len(pairs) |-> ConfigRow(pairs[i], checks)]) :
          pairs \in PairLists, checks \in CheckSets}
  \cup {Source(TRUE, m, <<ConfigRow(pair, {})>>) :
          m \in {"table_name", "description"}, pair \in ConfigPairs}

CodesRow(pair, valid_codes) ==
  [table_name |-> pair[1], field_name |-> pair[2], valid_codes |-> valid_codes]

\* The system codes configuration files.
CodesSources ==
  {NoSource,
   Source(TRUE, "", <<>>),
   Source(TRUE, "", <<CodesRow(<<"users", "email">>, <<"ab123">>)>>),
   Source(TRUE, "valid_codes", <<CodesRow(<<"users", "email">>, <<"ab123">>)>>)}

\* ------------------------------------------------------ failing samples ---

\* if len(failing_values) > 100: failing_values[:100] and the marker
SampleLimit == 100

\* LIMIT 100 of the value queries
QueryLimit == 100

\* LIMIT 50 of the blank_check and duplicate_check queries
ShortQueryLimit == 50

\* One entry of the list _get_failing_values_from_db returns: the value it
\* shows, what the text around the value says, and the count in that text.
Entry(value, note, count) == [value |-> value, note |-> note, count |-> count]

\* "... and more (truncated to 100 values)"
TruncationMarker == Entry("...", "and more (truncated to 100 values)", 0)

\* "Error retrieving values: ..."
RetrievalError == Entry("", "Error retrieving values", 0)

\* ... LIMIT n
Limit(rows, n) == SubSeq(rows, 1, IF Len(rows) < n THEN Len(rows) ELSE n)

\* SELECT DISTINCT field FROM table WHERE field IS NOT NULL AND field != ''
\* LIMIT 100
DistinctValues(col) == Limit(Distinct(NonNull(col)), QueryLimit)

RECURSIVE ByCountDesc(_, _, _)
\* ORDER BY count DESC over the groups: the largest count first, groups of
\* one count in the order of the grouping.
ByCountDesc(groups, count, c) ==
  IF c < 2 THEN <<>>
  ELSE SelectSeq(groups, LAMBDA v : count[v] = c) \o ByCountDesc(groups, count, c - 1)

\* GROUP BY field HAVING COUNT(*) > 1 ORDER BY count DESC LIMIT 50
DuplicateGroups(col) ==
  LET groups == Distinct(SelectSeq(col, LAMBDA v : v # Null))
      count == [v \in {groups[i] : i \in 1..Len(groups)} |-> Occurrences(col, v)]
      largest == SetMax({count[v] : v \in DOMAIN count} \cup {0})
  IN  Limit(ByCountDesc(groups, count, largest), ShortQueryLimit)

\* The failing values one branch of _get_failing_values_from_db collects;
\* a check type without a branch collects nothing.
CollectFailing(self, table_name, field_name, check_type, col) ==
  LET values == DistinctValues(col)
      Kept(Bad(_)) == LET bad == SelectSeq(values, Bad)
                      IN  [i \in 1..Len(bad) |-> Entry(bad[i], "", 0)]
  IN  CASE check_type = "null_check" ->
             <<Entry("NULL", "found occurrences", Occurrences(col, Null))>>
        [] check_type = "system_codes_check" ->
             LET valid_codes_list == _get_valid_system_codes(self, table_name, field_name)
                 valid_codes_upper ==
                   {Upper(valid_codes_list[i]) : i \in 1..Len(valid_codes_list)}
                 bad == IF valid_codes_list # <<>>
                          THEN SelectSeq(values, LAMBDA v : Upper(v) \notin valid_codes_upper)
                          ELSE SelectSeq(values, LAMBDA v : ~_looks_like_system_code(Upper(v)))
             IN  [i \in 1..Len(bad) |->
                    Entry(bad[i], IF valid_codes_list # <<>> THEN "not in external config"
                                  ELSE "pattern mismatch", 0)]
        [] check_type = "blank_check" ->
             LET rows == Limit(Distinct(SelectSeq(col, LAMBDA v : v = "" \/ v = Null)),
                               ShortQueryLimit)
             IN  [i \in 1..Len(rows) |->
                    Entry(IF rows[i] = Null THEN "NULL" ELSE rows[i], "", 0)]
        [] check_type = "email_check" -> Kept(LAMBDA v : ~_is_valid_email(v))
        [] check_type = "phone_number_check" -> Kept(LAMBDA v : ~_is_valid_phone(v))
        [] check_type = "date_check" -> Kept(LAMBDA v : ~_is_valid_date(v))
        [] check_type = "numeric_check" -> Kept(LAMBDA v : ~_is_numeric(v))
        [] check_type = "duplicate_check" ->
             LET rows == DuplicateGroups(col)
             IN  [i \in 1..Len(rows) |->
                    Entry(rows[i], "appears times", Occurrences(col, rows[i]))]
        [] check_type = "special_characters_check" -> Kept(_has_special_characters)
        [] OTHER -> <<>>

\* _get_failing_values_from_db: a statement on a missing table, a missing
\* column or a keyword column raises sqlite3.Error.
_get_failing_values_from_db(self, table_name, field_name, check_type) ==
  IF check_type \notin
       {"null_check", "system_codes_check", "blank_check", "email_check",
        "phone_number_check", "date_check", "numeric_check", "duplicate_check",
        "special_characters_check"}
    THEN <<>>
  ELSE IF \/ ~_column_exists(self.db_connection, table_name, field_name)
          \/ field_name = KeywordField
    THEN <<RetrievalError>>
  ELSE LET failing_values ==
             CollectFailing(self, table_name, field_name, check_type,
                            ColumnOf(self.db_connection, table_name, field_name))
       IN  IF Len(failing_values) > SampleLimit
             THEN SubSeq(failing_values, 1, SampleLimit) \o <<TruncationMarker>>
             ELSE failing_values

\* Whether the rule of a check type in _run_field_checks counts the stored
\* value v of the column as offending.
RuleOffends(self, table_name, field_name, check_type, col, v) ==
  LET valid_codes_list == _get_valid_system_codes(self, table_name, field_name)
      valid_codes_upper == {Upper(valid_codes_list[i]) : i \in 1..Len(valid_codes_list)}
      kept == v # Null /\ v # ""
  IN  CASE check_type = "null_check" -> v = Null
        [] check_type = "blank_check" -> v = ""
        [] check_type = "email_check" -> kept /\ ~_is_valid_email(v)
        [] check_type = "phone_number_check" -> kept /\ ~_is_valid_phone(v)
        [] check_type = "date_check" -> kept /\ ~_is_valid_date(v)
        [] check_type = "numeric_check" -> kept /\ ~_is_numeric(v)
        [] check_type = "duplicate_check" -> v # Null /\ Occurrences(col, v) > 1
        [] check_type = "special_characters_check" -> kept /\ _has_special_characters(v)
        [] check_type = "system_codes_check" ->
             kept /\ (IF valid_codes_list # <<>> THEN Upper(v) \notin valid_codes_upper
                      ELSE ~_looks_like_system_code(Upper(v)))
        [] check_type = "language_check" -> kept /\ _has_non_ascii_characters(v)
        [] OTHER -> FALSE

\* The columns the sample queries read: n generated values, each once or
\* twice, or a few rows of ordinary values.
SampleAlphabet == {Null, "", "abc", "caf\\u00e9", "AB123"}

SampleColumns ==
  {[i \in 1..n |-> Offender(i)] : n \in (SampleLimit - 1)..MaxOffending}
  \cup {[i \in 1..(2 * n) |-> Offender(((i - 1) % n) + 1)] :
          n \in {ShortQueryLimit, ShortQueryLimit + 1, MaxOffending}}
  \cup UNION {[1..k -> SampleAlphabet] : k \in 0..MaxSampleRows}

\* The columns a single rule is applied to: a few values repeated, and
\* numbers with text and NULL.
RepeatedColumns == UNION {[1..k -> {Null, "a", "b", "c"}] : k \in 1..MaxRepeatedRows}

NumericColumns ==
  UNION {[1..k -> {Null, "7", "-90", "100", "0", "abc"}] : k \in 1..MaxNumericRows}

\* A column and the checks enabled when single rules are applied to it.
RuleInputs ==
  (RepeatedColumns \X {{"duplicate_check"}})
  \cup (NumericColumns \X {{"max_count_check", "max_value_check"},
                            {"max_count_check", "max_value_check", "min_value_check",
                             "duplicate_check"}})

\* The data store of a sample query: users(email, order).
SampleStore(col) ==
  [t \in {"users"} |->
     [columns |-> [c \in {"email", KeywordField} |-> IF c = "email" THEN col ELSE <<>>]]]

\* ------------------------------------------------------ upload endpoint ---

\* create_sample_database (src/api_app.py): the table employees, five rows.
SampleDatabase ==
  [t \in {"employees"} |->
     [columns |->
        [c \in {"id", "name", "email", "phone", "department_code", "salary",
                "hire_date", "status"} |->
           CASE c = "id" -> <<"1", "2", "3", "4", "5">>
             [] c = "name" -> <<"John Doe", "Jane Smith", "", "Alice Brown", "Mike Davis">>
             [] c = "email" -> <<"john.doe@company.com", "jane.smith@company",
                                 "bob.wilson@company.com", "alice.brown@company.com",
                                 "mike.davis@company.com">>
             [] c = "phone" -> <<"555-0123", "555-0124", "555-0125", "123", "555-0127">>
             [] c = "department_code" -> <<"IT001", "HR002", "FIN003", "IT001", "INVALID">>
             [] c = "salary" -> <<"75000.0", "65000.0", "80000.0", "-5000.0", "70000.0">>
             [] c = "hire_date" -> <<"2023-01-15", "2023-02-01", "2023-03-01",
                                     "2023-04-01", "invalid-date">>
             [] OTHER -> <<"ACTIVE", "ACTIVE", "ACTIVE", "INACTIVE", "ACTIVE">>]]]

\* No field: the data store raises no error during the request.
NoFault == <<"", "">>

\* _run_field_checks of src/api_app.py: the null, blank and email checks.
\* fault: the field during whose evaluation the data store raises
\* sqlite3.Error (an I/O error, a lock), at the first statement of the try.
\* The first statement that names a keyword column raises it as well.
Api_run_field_checks(self, table_name, field_name, checks, fault) ==
  IF ~_column_exists(self.db_connection, table_name, field_name)
    THEN <<Result(table_name, field_name, "column_existence", "FAIL")>>
  ELSE IF fault = <<table_name, field_name>>
    THEN <<Result(table_name, field_name, "database_error", "ERROR")>>
  ELSE IF /\ field_name = KeywordField
          /\ Len(ColumnOf(self.db_connection, table_name, field_name)) > 0
          /\ checks \cap {"null_check", "blank_check", "email_check"} # {}
    THEN <<Result(table_name, field_name, "database_error", "ERROR")>>
  ELSE LET col == ColumnOf(self.db_connection, table_name, field_name)
       IN  IF Len(col) = 0
             THEN <<Result(table_name, field_name, "data_existence", "WARNING")>>
             ELSE (IF "null_check" \in checks
                     THEN null_check(table_name, field_name, col) ELSE <<>>)
                  \o (IF "blank_check" \in checks
                        THEN blank_check(table_name, field_name, col) ELSE <<>>)
                  \o (IF "email_check" \in checks
                        THEN ValuesCheck(table_name, field_name, "email_check", col,
                                         SelectSeq(NonNull(col),
                                                   LAMBDA v : ~_is_valid_email(v)))
                        ELSE <<>>)

RECURSIVE ApiRunTables(_, _, _, _)
ApiRunTables(self, i, results, fault) ==
  IF i > Len(self.checks_config) THEN results
  ELSE LET table_name == self.checks_config[i].k
           fields == self.checks_config[i].v
           table_results ==
             Flatten([j \in 1..Len(fields) |->
                        Api_run_field_checks(self, table_name, fields[j].k, fields[j].v, fault)])
       IN  IF ~_table_exists(self.db_connection, table_name) \/ table_results = <<>>
             THEN ApiRunTables(self, i + 1, results, fault)
             ELSE ApiRunTables(self, i + 1, DictSet(results, table_name, table_results), fault)

\* run_all_checks of src/api_app.py
Api_run_all_checks(self, fault) == ApiRunTables(self, 1, <<>>, fault)

\* The (table, field) pairs the uploaded configurations name.
ApiPairs ==
  {<<"employees", "email">>, <<"employees", "name">>, <<"employees", "nope">>,
   <<"ghost", "x">>}

ApiChecksSources ==
  {NoSource}
  \cup {Source(TRUE, "", [i \in 1..Len(pairs) |-> ConfigRow(pairs[i], checks)]) :
          pairs \in {ps \in UNION {[1..k -> ApiPairs] : k \in 0..(MaxConfigRows + 1)} :
                       \A i, j \in 1..Len(ps) : i # j => ps[i] # ps[j]},
          checks \in {{"null_check", "email_check"}, CheckNames}}
  \cup {Source(TRUE, "description", <<ConfigRow(<<"employees", "email">>, {})>>)}

\* POST /api/data-quality-check: a new checker on the sample database, both
\* loads, run_all_checks, the summary of the response.
run_data_quality_checks(dq_source, sc_source, fault) ==
  LET checker == [db_connection |-> SampleDatabase, checks_config |-> <<>>,
                  system_codes_config |-> <<>>]
      dq == load_checks_config(checker, dq_source)
      sc == load_system_codes_config(dq.self, sc_source)
      results == Api_run_all_checks(sc.self, fault)
  IN  IF ~dq.ret \/ ~sc.ret
        THEN [success |-> FALSE, results |-> <<>>, summary |-> NoSummary]
        ELSE IF results = <<>>
          THEN [success |-> TRUE, results |-> <<>>, summary |-> NoSummary]
          ELSE [success |-> TRUE, results |-> results, summary |-> summary_stats(results)]

\* ----------------------------------------------------- checker actions ---

\* No connection: the value of db in a call that reads no data.
NoDatabase == <<>>

NoCheckerCall ==
  [op |-> "none", source |-> NoSource, codes |-> NoSource, fault |-> <<"", "">>,
   field |-> <<"", "">>, check_type |-> "", failing_values |-> <<>>,
   checks |-> {}, message |-> [total_duplicate_count |-> 0, distinct |-> 0],
   db |-> NoDatabase, ret |-> FALSE,
   started |-> FALSE, results |-> <<>>, summary |-> NoSummary]

CheckerInit ==
  /\ checks_config = <<>>
  /\ system_codes_config = <<>>
  /\ cres = NoCheckerCall

\* The caller is between two calls.
CheckerIdle == cres.op = "none"

\* The number of fields a configuration holds, over all its tables.
FieldCount(config) == SumSeq([i \in 1..Len(config) |-> Len(config[i].v)])

SetChecker(self) ==
  /\ checks_config' = self.checks_config
  /\ system_codes_config' = self.system_codes_config

LoadChecksConfig(source) ==
  /\ CheckerIdle
  /\ LET r == load_checks_config(Checker(NoDatabase), source)
     IN  /\ FieldCount(r.self.checks_config) <= MaxConfigFields
         /\ SetChecker(r.self)
         /\ cres' = [NoCheckerCall EXCEPT !.op = "load_checks_config",
                                          !.source = source, !.ret = r.ret]
  /\ UNCHANGED <<maskerVars, archiveVars, sharedVars>>

LoadSystemCodesConfig(source) ==
  /\ CheckerIdle
  /\ LET r == load_system_codes_config(Checker(NoDatabase), source)
     IN  /\ SetChecker(r.self)
         /\ cres' = [NoCheckerCall EXCEPT !.op = "load_system_codes_config",
                                          !.source = source, !.ret = r.ret]
  /\ UNCHANGED <<maskerVars, archiveVars, sharedVars>>

\* SQLGenerator.run_data_quality_checks: nothing when no checks are
\* configured, else run_all_checks and print_results.  db: the content of
\* the data store during the run.
RunDataQualityChecks(db) ==
  /\ CheckerIdle
  /\ LET started == checks_config # <<>>
         results == IF started THEN run_all_checks(Checker(db)) ELSE <<>>
     IN  cres' = [NoCheckerCall EXCEPT !.op = "run_data_quality_checks",
                                       !.db = db,
                                       !.started = started,
                                       !.results = results,
                                       !.summary = print_results(results)]
  /\ UNCHANGED <<checks_config, system_codes_config>>
  /\ UNCHANGED <<maskerVars, archiveVars, sharedVars>>

\* The export of a failed result asks for the failing values of its field.
GetFailingValues(db, table_name, field_name, check_type) ==
  /\ CheckerIdle
  /\ cres' = [NoCheckerCall EXCEPT
               !.op = "_get_failing_values_from_db",
               !.db = db,
               !.field = <<table_name, field_name>>,
               !.check_type = check_type,
               !.failing_values =
                  _get_failing_values_from_db(Checker(db), table_name, field_name, check_type)]
  /\ UNCHANGED <<checks_config, system_codes_config>>
  /\ UNCHANGED <<maskerVars, archiveVars, sharedVars>>

\* The checks of one field of one table, as run_all_checks asks for them.
\* Of the messages the numbers of the duplicate_check message are kept.
RunFieldChecks(db, table_name, field_name, checks) ==
  /\ CheckerIdle
  /\ LET results == _run_field_checks(Checker(db), table_name, field_name, checks)
     IN  cres' = [NoCheckerCall EXCEPT
                    !.op = "_run_field_checks",
                    !.db = db,
                    !.field = <<table_name, field_name>>,
                    !.checks = checks,
                    !.results = IF results = <<>> THEN <<>>
                                ELSE DictSet(<<>>, table_name, results),
                    !.message =
                       IF \E i \in 1..Len(results) :
                             results[i] = Result(table_name, field_name, "duplicate_check", "FAIL")
                         THEN duplicate_message(ColumnOf(db, table_name, field_name))
                         ELSE @]
  /\ UNCHANGED <<checks_config, system_codes_config>>
  /\ UNCHANGED <<maskerVars, archiveVars, sharedVars>>

\* A request to the upload endpoint; it shares nothing with the checker of
\* the console program.
ApiDataQualityCheck(dq_source, sc_source, fault) ==
  /\ CheckerIdle
  /\ LET r == run_data_quality_checks(dq_source, sc_source, fault)
     IN  cres' = [NoCheckerCall EXCEPT !.op = "api_data_quality_check",
                                       !.source = dq_source,
                                       !.codes = sc_source,
                                       !.fault = fault,
                                       !.ret = r.success,
                                       !.results = r.results,
                                       !.summary = r.summary]
  /\ UNCHANGED <<checks_config, system_codes_config>>
  /\ UNCHANGED <<maskerVars, archiveVars, sharedVars>>

\* The caller takes the outcome of the call; the next call can start.
CheckerReturn ==
  /\ cres.op # "none"
  /\ cres' = NoCheckerCall
  /\ UNCHANGED <<checks_config, system_codes_config>>
  /\ UNCHANGED <<maskerVars, archiveVars, sharedVars>>

CheckerNext ==
  \/ \E source \in ChecksSources : LoadChecksConfig(source)
  \/ \E source \in CodesSources : LoadSystemCodesConfig(source)
  \/ \E db \in Databases : RunDataQualityChecks(db)
  \/ CheckerReturn

\* ------------------------------------------------------ specifications ---

Init == MaskerInit /\ ArchiveInit /\ CheckerInit /\ SharedInit

\* The masker alone, the archive alone.
SpecMasker == Init /\ [][MaskerNext]_vars

SpecArchive == Init /\ [][ArchiveNext]_vars

\* The archive under store calls whose failures the history notes.
StoresNext ==
  \/ \E op \in StoreOps, q \in Queries, i \in StoreInputs :
        Store(op, q, i.records, i.bad, i.column_names, i.meta_ok)
  \/ Reopen
  \/ NextDay
  \/ ArchiveReturn

SpecStores == Init /\ [][StoresNext]_vars

SpecChecker == Init /\ [][CheckerNext]_vars

\* The masker on a schema one of whose tables is named like a token.
SchemaNext ==
  \/ \E n \in SchemaTableNames : MaskTableName(n)
  \/ \E t \in SchemaTableNames, c \in {"id", "email"} : MaskColumnName(t, c)
  \/ \E tok \in TableTokens : UnmaskTableName(tok)
  \/ \E t \in TableTokens \cup SchemaTableNames, tok \in ColumnTokens \cup {"id"} :
        UnmaskColumnName(t, tok)
  \/ MaskerReturn

SpecSchema == Init /\ [][SchemaNext]_vars

\* The upload endpoint: each request builds its own checker.
ApiNext ==
  \/ \E dq_source \in ApiChecksSources, sc_source \in CodesSources,
        fault \in ApiPairs \cup {NoFault} :
        ApiDataQualityCheck(dq_source, sc_source, fault)
  \/ CheckerReturn

SpecApi == Init /\ [][ApiNext]_vars

\* The failing samples of the export, under any system codes configuration.
SamplesNext ==
  \/ \E source \in CodesSources : LoadSystemCodesConfig(source)
  \/ \E col \in SampleColumns, field_name \in {"email", KeywordField, "nope"},
        check_type \in CheckNames :
        GetFailingValues(SampleStore(col), "users", field_name, check_type)
  \/ CheckerReturn

SpecSamples == Init /\ [][SamplesNext]_vars

\* Single rules applied to one column.
RulesNext ==
  \/ \E i \in RuleInputs : RunFieldChecks(SampleStore(i[1]), "users", "email", i[2])
  \/ CheckerReturn

SpecRules == Init /\ [][RulesNext]_vars

\* Two archive instances whose store calls interleave statement by statement.
SpecShared == Init /\ [][SharedNext]_vars

\* ============================================================ claims =====

\* --------------------------------------------------------------- masker --

Position(seq, x) == CHOOSE i \in 1..Len(seq) : seq[i] = x

\* C1: the Nth distinct name first masked in a scope (all tables; the
\* columns of one table) holds the token with index N, and a mask call
\* returns, for a name masked before, the token of its first masking.
C1_SequentialTokens ==
  /\ \A i \in 1..Len(firstSeenTables) :
        /\ DictHas(table_mapping, firstSeenTables[i])
        /\ DictGet(table_mapping, firstSeenTables[i]) = "table_" \o ToString(i)
  /\ \A t \in TableNames : \A i \in 1..Len(firstSeenCols[t]) :
        /\ DictHas(column_mapping, t)
        /\ DictHas(DictGet(column_mapping, t), firstSeenCols[t][i])
        /\ DictGet(DictGet(column_mapping, t), firstSeenCols[t][i]) = "col_" \o ToString(i)
  /\ mres.op = "mask_table_name" =>
        mres.ret = "table_" \o ToString(Position(firstSeenTables, mres.name))
  /\ mres.op = "mask_column_name" =>
        mres.ret = "col_" \o ToString(Position(firstSeenCols[mres.table], mres.name))

\* The first table name is masked again after a second one, and some table
\* has two columns.
C1_Witness ==
  /\ mres.op = "mask_table_name"
  /\ Len(firstSeenTables) = 2
  /\ mres.name = firstSeenTables[1]
  /\ mres.ret = "table_1"
  /\ \E t \in TableNames : Len(firstSeenCols[t]) = 2

\* The names the masker knows: the tables, and the columns of every table.
KnownNames ==
  DictKeys(table_mapping)
    \cup UNION {DictKeys(column_mapping[i].v) : i \in 1..Len(column_mapping)}

KnownTexts == UNION {[1..n -> KnownNames] : n \in 0..MaxTextLen}

\* C2: for every text built only from the known table and column names,
\* unmask_sql_query(mask_user_query(text)) returns the text (stated for
\* the states whose names are plain identifiers; the raising replacement
\* template is C4's subject).
C2_RoundTrip ==
  BadName \notin KnownNames =>
    \A text \in KnownTexts :
       LET masked == mask_user_query(Self, text)
       IN  /\ ~masked.raised
           /\ unmask_sql_query(Self, masked.out) = [raised |-> FALSE, out |-> text]

\* C3: within one mask_user_query call no column substitution precedes a
\* table substitution.
C3_TablesBeforeColumns ==
  mres.op = "mask_user_query" =>
    \A i, j \in 1..Len(mres.steps) :
       i < j => ~(mres.steps[i].kind = "column" /\ mres.steps[j].kind = "table")

\* C4: when a substitution of unmask_sql_query raises, the call does not
\* raise to its caller and returns its input text.
C4_UnmaskFailsOpen ==
  (/\ mres.op = "unmask_sql_query"
   /\ \E i \in 1..Len(mres.steps) : TemplateError(mres.steps[i].repl))
    => (~mres.raised /\ mres.out = mres.text)

\* Every entry of d is an entry of e.
Preserved(d, e) ==
  \A i \in 1..Len(d) : DictHas(e, d[i].k) /\ DictGet(e, d[i].k) = d[i].v

\* The same, for a dict of dicts: every entry of every inner dict stays.
PreservedNested(d, e) ==
  \A i \in 1..Len(d) : DictHas(e, d[i].k) /\ Preserved(d[i].v, DictGet(e, d[i].k))

\* No two keys of d hold the same value.
Injective(d) == \A i, j \in 1..Len(d) : d[i].v = d[j].v => i = j

\* C5: across the masker's operations every forward and reverse map only
\* gains entries (none is removed or changed), and within a scope no token
\* is held by two names.
C5_MapsOnlyGrow ==
  [][/\ Preserved(table_mapping, table_mapping')
     /\ Preserved(reverse_table_mapping, reverse_table_mapping')
     /\ PreservedNested(column_mapping, column_mapping')
     /\ PreservedNested(reverse_column_mapping, reverse_column_mapping')
     /\ Injective(table_mapping')
     /\ \A i \in 1..Len(column_mapping') : Injective(column_mapping'[i].v)]_vars

\* A text was unmasked by a masker that knows two tables, each with columns.
C5_Witness ==
  /\ mres.op = "unmask_sql_query"
  /\ Len(table_mapping) = 2
  /\ Len(column_mapping) = 2
  /\ \E i \in 1..Len(column_mapping) : Len(column_mapping[i].v) = 2

\* -------------------------------------------------------------- archive --

\* The store operation a catalog row comes from, by its provenance.
OpOfRow(r) ==
  IF r.original_query = FailedSentinel THEN "store_failed_checks_results"
  ELSE IF r.original_query = PassedSentinel THEN "store_passed_checks_results"
  ELSE "store_query_results"

\* The versions the catalog holds for a store operation and a day.
VersionsOf(catalog, op, t) ==
  {r.version : r \in {x \in catalog :
      OpOfRow(x) = op /\ x.execution_date = StrftimeDashed(t)}}

\* The version the next store call of an operation would compute on day t
\* (0: the call would fail in _get_next_version).
NextVersion(c, op, t) ==
  IF ~c.has_catalog THEN 0
  ELSE CASE op = "store_failed_checks_results" ->
              _generate_failed_checks_table_name(c.catalog, t).version
         [] op = "store_passed_checks_results" ->
              _generate_passed_checks_table_name(c.catalog, t).version
         [] OTHER -> _generate_table_name(c.catalog, t).version

\* The base name of an operation's tables.
BaseOf(op) ==
  CASE op = "store_failed_checks_results" -> FailedBase
    [] op = "store_passed_checks_results" -> PassedBase
    [] OTHER -> QueryBase

\* name is the name of a result table of the operation and the day.
NameOfKindAndDay(name, op, t) ==
  \E v \in 1..(MaxStores + 1) :
     name = VersionedName(BaseOf(op) \o <<"_">> \o StrftimeCompact(t), v)

\* The step is a call of the given operation that has returned.
Called(ops) == ares.op = "none" /\ ares'.op \in ops

\* C6: while no delete has happened, the versions of the successful stores
\* of one kind on one day are 1, 2, 3, ... in this order, and they are the
\* versions the catalog holds for the kind and day: each store got one more
\* than the largest version recorded.
C6_VersionsCountUp ==
  ~deleted =>
    \A op \in StoreOps, i \in 1..Len(Days) :
       /\ \A j \in 1..Len(assigned[<<op, i>>]) : assigned[<<op, i>>][j] = j
       /\ VersionsOf(conn.catalog, op, Days[i]) = 1..Len(assigned[<<op, i>>])

\* Two stores of one kind on one day have succeeded, the second one last.
C6_Witness ==
  /\ ~deleted
  /\ ares.op \in StoreOps
  /\ ares.ret # None
  /\ ares.version = 2
  /\ assigned[<<ares.op, DayIndex(now)>>] = <<1, 2>>

\* C7: a store of another kind or on another day, and the delete of a
\* result table of another kind or day, leave the next version of a kind
\* and day as it was.
C7_OtherKindsLeaveVersion ==
  [][\A op \in StoreOps, i \in 1..Len(Days) :
       (\/ /\ Called(StoreOps)
           /\ <<ares'.op, ares'.date>> # <<op, StrftimeCompact(Days[i])>>
        \/ /\ Called({"delete_stored_result"})
           /\ TableExists(conn, ares'.table_name)
           /\ ~NameOfKindAndDay(ares'.table_name, op, Days[i]))
       => NextVersion(conn', op, Days[i]) = NextVersion(conn, op, Days[i])]_vars

\* A store gets version 1 while the catalog holds an entry of another kind
\* and an entry of another day.
C7_Witness ==
  /\ ares.op \in StoreOps
  /\ ares.ret # None
  /\ ares.version = 1
  /\ \E r \in conn.catalog : OpOfRow(r) # ares.op
  /\ \E r \in conn.catalog : r.execution_date # StrftimeDashed(now)

\* C8, as claimed: the versions of the successful stores of one kind on
\* one day strictly increase, deletes or not: none is assigned twice.
C8_NeverReassigned ==
  \A op \in StoreOps, i \in 1..Len(Days) :
     \A j, k \in 1..Len(assigned[<<op, i>>]) :
        j < k => assigned[<<op, i>>][j] < assigned[<<op, i>>][k]

\* C8, amended: a successful store gets one more than the largest version
\* the catalog holds for its kind and day at the call (1 when it holds
\* none), and a table name that no table and no catalog row carries.
C8_FreshAmongPresent ==
  [][(Called(StoreOps) /\ ares'.ret # None) =>
       LET held == VersionsOf(conn.catalog, ares'.op, now)
       IN  /\ ares'.version = (IF held = {} THEN 0 ELSE SetMax(held)) + 1
           /\ ~TableExists(conn, ares'.ret)
           /\ ~TableExists(disk, ares'.ret)
           /\ \A r \in conn.catalog : r.table_name # ares'.ret]_vars

\* A version is assigned a second time: after a store and the delete of
\* its table, the next store of the kind gets version 1 again.
C8_Witness ==
  /\ ares.op \in StoreOps
  /\ ares.ret # None
  /\ deleted
  /\ assigned[<<ares.op, DayIndex(now)>>] = <<1, 1>>

\* C9: a store call that returns None leaves nothing behind, neither on
\* disk nor in an open transaction; one that returns a table name has made
\* the table, its rows and its catalog row persistent together.
C9_StoreAtomic ==
  [][Called(StoreOps) =>
       IF ares'.ret = None
         THEN conn' = conn /\ disk' = disk /\ in_transaction' = in_transaction
         ELSE /\ disk' = conn'
              /\ ~in_transaction'
              /\ \E t \in disk'.tables : t.name = ares'.ret /\ t.rows = ares'.records
              /\ \E r \in disk'.catalog : r.table_name = ares'.ret]_vars

\* C10: store_failed_checks_results and store_passed_checks_results with
\* zero records return None and change nothing: no table, no catalog row,
\* no transaction, the same next version.
C10_EmptyStoreChangesNothing ==
  [][(/\ Called({"store_failed_checks_results", "store_passed_checks_results"})
      /\ ares'.records = 0)
       => /\ ares'.ret = None
          /\ conn' = conn
          /\ disk' = disk
          /\ in_transaction' = in_transaction
          /\ NextVersion(conn', ares'.op, now) = NextVersion(conn, ares'.op, now)]_vars

\* A store of zero records has returned on an archive that holds a result.
C10_Witness ==
  /\ ares.op \in {"store_failed_checks_results", "store_passed_checks_results"}
  /\ ares.records = 0
  /\ ares.ret = None
  /\ conn.catalog # {}

\* C11: the table a successful store call of any of the three kinds has
\* created has the surrogate column result_id if and only if the supplied
\* column names hold no column equal to 'id' ignoring case.
C11_SurrogateIffNoId ==
  (ares.op \in StoreOps /\ ares.ret # None) =>
     \A t \in conn.tables :
        t.name = ares.ret => (t.result_id <=> ~ares.id_supplied)

\* C12: a delete_stored_result call that ends in an error leaves the
\* persisted catalog and result tables as they were.
C12_DeleteErrorNoOp ==
  [][(Called({"delete_stored_result"}) /\ ares'.stage = "error")
       => disk' = disk]_vars

\* -------------------------------------------------------------- checker --

\* A run has returned its results.
RunDone == cres.op = "run_data_quality_checks" /\ cres.started

\* The checker as the run saw it.
RunChecker == Checker(cres.db)

\* The results a run holds for one field of one table, in their order.
FieldResults(results, t, f) ==
  SelectSeq(AllResults(results), LAMBDA r : r.table = t /\ r.field = f)

\* The configured (table, field, checks) entries of the tables that exist.
ConfiguredFields ==
  UNION {{<<checks_config[i].k, checks_config[i].v[j].k, checks_config[i].v[j].v>> :
            j \in 1..Len(checks_config[i].v)} :
         i \in {n \in 1..Len(checks_config) : _table_exists(cres.db, checks_config[n].k)}}

\* Every field of every configured table that exists has the results its
\* own evaluation gives.
AllFieldsValidated ==
  \A e \in ConfiguredFields :
     FieldResults(cres.results, e[1], e[2]) = _run_field_checks(RunChecker, e[1], e[2], e[3])

\* C13: a configured table that is missing from the data store has no key
\* in the returned map and no result, and the run still returns the
\* results of every field of the other configured tables.
C13_MissingTableSkipped ==
  RunDone =>
    /\ \A i \in 1..Len(checks_config) :
         ~_table_exists(cres.db, checks_config[i].k) =>
            /\ ~DictHas(cres.results, checks_config[i].k)
            /\ \A j \in 1..Len(AllResults(cres.results)) :
                  AllResults(cres.results)[j].table # checks_config[i].k
    /\ AllFieldsValidated
    /\ \A i \in 1..Len(cres.results) : cres.results[i].v # <<>>

\* A run over a configuration whose first table is missing has returned
\* results of a later table.
C13_Witness ==
  /\ RunDone
  /\ Len(checks_config) >= 2
  /\ ~_table_exists(cres.db, checks_config[1].k)
  /\ checks_config[1].v # <<>>
  /\ cres.results # <<>>

\* C14: a configured field whose column is missing from an existing table
\* has exactly one result, FAIL of check_type column_existence, whatever
\* checks are enabled, and the other fields of the table have the results
\* of their own evaluation.
C14_MissingColumnOneFail ==
  RunDone =>
    \A e \in ConfiguredFields :
       ~_column_exists(cres.db, e[1], e[2]) =>
          /\ FieldResults(cres.results, e[1], e[2])
               = <<Result(e[1], e[2], "column_existence", "FAIL")>>
          /\ \A g \in ConfiguredFields :
                (g[1] = e[1] /\ g[2] # e[2]) =>
                   FieldResults(cres.results, g[1], g[2])
                     = _run_field_checks(RunChecker, g[1], g[2], g[3])

\* A table's first field has no column, all checks enabled, and a later
\* field of the table has results.
C14_Witness ==
  /\ RunDone
  /\ \E i \in 1..Len(cres.results) :
        LET rs == cres.results[i].v
        IN  /\ Len(rs) >= 2
            /\ rs[1].check_type = "column_existence"
            /\ rs[2].field # rs[1].field
            /\ \E e \in ConfiguredFields :
                  e[1] = rs[1].table /\ e[2] = rs[1].field /\ e[3] = CheckNames

ErrorOccurs(db, t, f, checks) ==
  /\ _column_exists(db, t, f)
  /\ Len(ColumnOf(db, t, f)) > 0
  /\ f = KeywordField
  /\ \E i \in 1..Len(TopLevelChecks) : TopLevelChecks[i] \in checks

Contribution(results, check) ==
  SelectSeq(results, LAMBDA r : r.check_type = check)

\* C17: for a field with an existing column and at least one row (and no
\* data-store error), what a check contributes is what it contributes when
\* it is the only check enabled: it does not depend on the other flags.
C17_ChecksIndependent ==
  RunDone =>
    \A e \in ConfiguredFields :
       (/\ _column_exists(cres.db, e[1], e[2])
        /\ Len(ColumnOf(cres.db, e[1], e[2])) > 0
        /\ e[2] # KeywordField)
         => \A check \in CheckNames :
               Contribution(FieldResults(cres.results, e[1], e[2]), check)
                 = Contribution(_run_field_checks(RunChecker, e[1], e[2], e[3] \cap {check}), check)

\* C18: in the console summary and in the upload endpoint's summary the
\* total number of checks is the sum of the passed, failed and warning
\* counts, whatever statuses the results have.
C18_SummaryAddsUp ==
  cres.op \in {"run_data_quality_checks", "api_data_quality_check"} =>
     cres.summary.total_checks
       = cres.summary.passed_checks + cres.summary.failed_checks + cres.summary.warnings

\* The tables a configuration holds.
ConfigTables(config) == {config[i].k : i \in 1..Len(config)}

\* The (table, field, value) entries a configuration holds.
ConfigEntries(config) ==
  UNION {{<<config[i].k, config[i].v[j].k, config[i].v[j].v>> :
            j \in 1..Len(config[i].v)} : i \in 1..Len(config)}

\* The tables a configuration file names.
SourceTables(source) == {source.rows[i].table_name : i \in 1..Len(source.rows)}

\* A load has returned success.
LoadSucceeded(op) == cres'.op = op /\ cres'.ret

\* C19: after a successful load (of the checks configuration or of the
\* system codes configuration) the loaded configuration holds exactly the
\* tables and entries of the source just read, nothing of earlier loads.
C19_LoadReplaces ==
  [][/\ LoadSucceeded("load_checks_config") =>
          /\ ConfigTables(checks_config') = SourceTables(cres'.source)
          /\ ConfigEntries(checks_config')
               = {<<cres'.source.rows[i].table_name, cres'.source.rows[i].field_name,
                    cres'.source.rows[i].checks>> : i \in 1..Len(cres'.source.rows)}
     /\ LoadSucceeded("load_system_codes_config") =>
          /\ ConfigTables(system_codes_config') = SourceTables(cres'.source)
          /\ ConfigEntries(system_codes_config')
               = {<<cres'.source.rows[i].table_name, cres'.source.rows[i].field_name,
                    cres'.source.rows[i].valid_codes>> : i \in 1..Len(cres'.source.rows)}]_vars

\* The system codes part of C19 alone.
C19_CodesLoadReplaces ==
  [][LoadSucceeded("load_system_codes_config") =>
          /\ ConfigTables(system_codes_config') = SourceTables(cres'.source)
          /\ ConfigEntries(system_codes_config')
               = {<<cres'.source.rows[i].table_name, cres'.source.rows[i].field_name,
                    cres'.source.rows[i].valid_codes>> : i \in 1..Len(cres'.source.rows)}]_vars

\* A load has returned failure.
LoadFailed(op) == cres'.op = op /\ ~cres'.ret

\* C20: a configuration load that fails reports failure and adds no table
\* and no field entry to the active configuration, and a run that starts
\* has at least one loaded field entry to work on.
C20_FailedLoadAsAWhole ==
  [][/\ LoadFailed("load_checks_config") =>
          /\ ConfigTables(checks_config') \subseteq ConfigTables(checks_config)
          /\ ConfigEntries(checks_config') \subseteq ConfigEntries(checks_config)
     /\ LoadFailed("load_system_codes_config") =>
          /\ ConfigTables(system_codes_config') \subseteq ConfigTables(system_codes_config)
          /\ ConfigEntries(system_codes_config') \subseteq ConfigEntries(system_codes_config)
     /\ (cres'.op = "run_data_quality_checks" /\ cres'.started) =>
          ConfigEntries(checks_config) # {}]_vars

\* -------------------------------------------------------------------------
\* Failing samples (SpecSamples)

\* _get_failing_values_from_db has returned and its statements raised no error.
SampleDone ==
  /\ cres.op = "_get_failing_values_from_db"
  /\ cres.failing_values # <<RetrievalError>>
  /\ _column_exists(cres.db, cres.field[1], cres.field[2])

\* The column the call read.
SampleCol == ColumnOf(cres.db, cres.field[1], cres.field[2])

\* The distinct stored values the rule of the call's check type counts as
\* offending.
OffendingValues ==
  {v \in {SampleCol[i] : i \in 1..Len(SampleCol)} :
     RuleOffends(Checker(cres.db), cres.field[1], cres.field[2], cres.check_type,
                 SampleCol, v)}

\* The stored values the returned entries list.
ListedValues ==
  {IF e.value = "NULL" /\ cres.check_type \in {"null_check", "blank_check"}
     THEN Null ELSE e.value :
   e \in {cres.failing_values[i] : i \in 1..Len(cres.failing_values)}
         \ ({TruncationMarker}
            \cup {x \in {Entry("NULL", "found occurrences", 0)} :
                    cres.check_type = "null_check"})}

\* C21: with more than 100 offending values in the store the call returns
\* exactly 100 value entries followed by one truncation marker; with at
\* most 100 it returns every offending value and no marker.
C21_SampleTruncation ==
  SampleDone =>
    LET fv == cres.failing_values
    IN  IF Cardinality(OffendingValues) > SampleLimit
          THEN /\ Len(fv) = SampleLimit + 1
               /\ fv[SampleLimit + 1] = TruncationMarker
               /\ \A i \in 1..SampleLimit : fv[i] # TruncationMarker
          ELSE /\ \A i \in 1..Len(fv) : fv[i] # TruncationMarker
               /\ OffendingValues \subseteq ListedValues

\* C22: the samples follow the rule's predicate: a stored value is listed
\* only if the rule counts it as offending, and when the rule's result is
\* FAIL the list holds at least one offending value.
C22_SamplesFollowRule ==
  SampleDone =>
    /\ ListedValues \subseteq OffendingValues
    /\ (\E r \in {CheckBlock(Checker(cres.db), cres.field[1], cres.field[2],
                             {cres.check_type}, cres.check_type, SampleCol)} :
          \E i \in 1..Len(r) : r[i].status = "FAIL")
         => ListedValues \cap OffendingValues # {}

\* -------------------------------------------------------------------------
\* The two checkers (SpecChecker)

\* C23: for the same configuration, allow-lists and store contents the
\* run_all_checks of the upload module returns what the run_all_checks of
\* the command-line module returns, for every table and field.
C23_CheckersAgree ==
  RunDone => Api_run_all_checks(RunChecker, NoFault) = cres.results

\* -------------------------------------------------------------------------
\* Two archive instances (SpecShared)

\* The databases a connection can read: the file and the open transactions.
SharedViews == {file} \cup {inst[p].pending : p \in {q \in Instances : inst[q].in_transaction}}

\* C24: when store calls of two instances interleave, the catalog never
\* holds two entries with the same table name and version, and no physical
\* table holds the rows of two calls.
C24_InterleavedStoresDistinct ==
  \A d \in SharedViews :
     /\ \A r1, r2 \in d.catalog :
           (r1.table_name = r2.table_name /\ r1.version = r2.version) => r1 = r2
     /\ \A t \in d.tables : Cardinality(t.writers) <= 1

\* Both calls computed the same name before either wrote; one stored its
\* records, the other failed.
C24_Witness ==
  \E p, q \in Instances :
     /\ p # q
     /\ inst[p].stage = "stored" /\ inst[q].stage = "create_failed"
     /\ inst[p].gen = inst[q].gen /\ inst[p].op = inst[q].op
     /\ inst[p].raced \/ inst[q].raced
     /\ \E t \in file.tables : t.name = inst[p].gen.table_name /\ t.writers = {inst[p].call}

\* -------------------------------------------------------------------------
\* The value analyses (SpecChecker)

\* C25: in the command-line checker a field whose max_count_check is
\* disabled has no max_value_check and no min_value_check result, whatever
\* their own flags and the data are.
C25_ValueChecksNeedMaxCount ==
  RunDone =>
    \A e \in ConfiguredFields :
       "max_count_check" \notin e[3] =>
          \A r \in {FieldResults(cres.results, e[1], e[2])} :
             \A i \in 1..Len(r) : r[i].check_type \notin {"max_value_check", "min_value_check"}

\* A run over a field with numeric data whose max_value_check is enabled
\* and whose max_count_check is not.
C25_Witness ==
  /\ RunDone
  /\ \E e \in ConfiguredFields :
        /\ "max_value_check" \in e[3]
        /\ "max_count_check" \notin e[3]
        /\ _column_exists(cres.db, e[1], e[2])
        /\ NumericValues(ColumnOf(cres.db, e[1], e[2])) # <<>>
        /\ FieldResults(cres.results, e[1], e[2]) = <<>>

\* -------------------------------------------------------------------------
\* Single rules (SpecRules)

\* _run_field_checks has returned for a column with at least one row.
RuleDone(checks) ==
  /\ cres.op = "_run_field_checks"
  /\ checks \subseteq cres.checks
  /\ Len(SampleCol) > 0

\* The results of one check type among the results of the call.
RuleResults(check_type) ==
  SelectSeq(AllResults(cres.results), LAMBDA r : r.check_type = check_type)

\* The non-null values that occur more than once in the column.
Repeated ==
  {v \in {SampleCol[i] : i \in 1..Len(SampleCol)} \ {Null} : Occurrences(SampleCol, v) > 1}

\* C26: duplicate_check on a non-empty table gives one result, FAIL exactly
\* when a non-null value occurs more than once; then the excess count is
\* the sum over those values of (occurrences - 1) and the distinct count is
\* their number.  NULL never forms a cluster.
C26_DuplicateCounts ==
  RuleDone({"duplicate_check"}) =>
    /\ Len(RuleResults("duplicate_check")) = 1
    /\ RuleResults("duplicate_check")[1].status = (IF Repeated # {} THEN "FAIL" ELSE "PASS")
    /\ Repeated # {} =>
         /\ cres.message.distinct = Cardinality(Repeated)
         /\ cres.message.total_duplicate_count
              = Len(SelectSeq(SampleCol, LAMBDA v : v \in Repeated)) - Cardinality(Repeated)

\* The column [a, a, b, c, c, c]: FAIL, 3 and 2.
C26_Witness ==
  /\ RuleDone({"duplicate_check"})
  /\ SampleCol = <<"a", "a", "b", "c", "c", "c">>
  /\ RuleResults("duplicate_check")[1].status = "FAIL"
  /\ cres.message = [total_duplicate_count |-> 3, distinct |-> 2]

\* C27: when max_value_check is evaluated on a column with a numeric value
\* there is exactly one max_value_check result with status PASS or WARNING,
\* and it is WARNING exactly when count * max > 10 * sum of the numeric
\* values, also when the mean is zero or negative.
C27_MaxValueOutlier ==
  RuleDone({"max_count_check", "max_value_check"}) =>
    LET nums == NumericValues(SampleCol)
        graded == SelectSeq(RuleResults("max_value_check"),
                            LAMBDA r : r.status \in {"PASS", "WARNING"})
    IN  nums # <<>> =>
          /\ Len(graded) = 1
          /\ graded[1].status = "WARNING"
               <=> \E i \in 1..Len(nums) :
                      /\ \A j \in 1..Len(nums) : nums[j] <= nums[i]
                      /\ Len(nums) * nums[i] > 10 * SumSeq(nums)

\* A WARNING on numbers whose mean is negative.
C27_Witness ==
  /\ RuleDone({"max_count_check", "max_value_check"})
  /\ SumSeq(NumericValues(SampleCol)) < 0
  /\ \E i \in 1..Len(RuleResults("max_value_check")) :
        RuleResults("max_value_check")[i].status = "WARNING"

\* -------------------------------------------------------------------------
\* The maps of the masker (SpecSchema)

\* d1[k] = v exactly when d2[v] = k.
MutualInverses(d1, d2) ==
  /\ \A i \in 1..Len(d1) : DictHas(d2, d1[i].v) /\ DictGet(d2, d1[i].v) = d1[i].k
  /\ \A i \in 1..Len(d2) : DictHas(d1, d2[i].v) /\ DictGet(d1, d2[i].v) = d2[i].k

\* The forward and reverse maps are mutual inverses in each scope.
MapsInverse ==
  /\ MutualInverses(table_mapping, reverse_table_mapping)
  /\ DictKeys(column_mapping) = DictKeys(reverse_column_mapping)
  /\ \A t \in DictKeys(column_mapping) :
        MutualInverses(DictGet(column_mapping, t), DictGet(reverse_column_mapping, t))

\* unmask_table_name(mask_table_name(o)) = o for every table name o.
TableRoundTrip ==
  \A o \in SchemaTableNames :
     LET r == mask_table_name(Self, o)
     IN  unmask_table_name(r.self, r.ret) = o

\* C28 as stated: the maps are mutual inverses, and a name masked and then
\* unmasked is the name again, the column call being given the table's own
\* name.
C28_RoundTripByName ==
  /\ MapsInverse
  /\ TableRoundTrip
  /\ \A t \in SchemaTableNames, o \in ColumnNames :
        LET r == mask_column_name(Self, t, o)
        IN  unmask_column_name(r.self, t, r.ret) = o

\* -------------------------------------------------------------------------
\* The catalog and the result tables (SpecArchive)

\* In the view d of the archive every catalog row names a result table,
\* every result table has one catalog row, and the row counts its rows.
OneToOne(d) ==
  /\ \A r \in d.catalog : TableExists(d, r.table_name)
  /\ \A t \in d.tables :
        /\ Cardinality({r \in d.catalog : r.table_name = t.name}) = 1
        /\ \A r \in d.catalog : r.table_name = t.name => r.row_count = t.rows

\* C29: between calls, after any sequence of store and delete calls, the
\* catalog and the result tables correspond one to one, as the connection
\* sees them and as they are on disk, and each catalog row's row_count is
\* the number of rows of its table.
C29_CatalogMatchesTables ==
  ArchiveIdle => OneToOne(conn) /\ OneToOne(disk)

\* C30: a failed store call does not wedge the archive.  While no delete
\* has happened, after a store call of a kind has failed at CREATE TABLE,
\* at the bulk INSERT or at the INSERT of the catalog row, a later store
\* call of the kind on the same date with valid records and columns
\* succeeds, with a table name that no table and no catalog row carries.
C30_FailedStoreNoWedge ==
  [][(/\ Called(StoreOps)
      /\ ares'.valid
      /\ ~deleted
      /\ failed[<<ares'.op, DayIndex(now)>>])
       => /\ ares'.stage = "stored"
          /\ ares'.ret # None
          /\ ~TableExists(conn, ares'.ret)
          /\ \A r \in conn.catalog : r.table_name # ares'.ret]_vars

====
